---- MODULE Spec2Model ----
(***************************************************************************)
(* FrankyX weather manager: the guardrail callbacks of                     *)
(* weather_manager/callbacks.py (after_tool_callback stores tool results   *)
(* in the session state, after_model_callback validates the model's        *)
(* response against the stored forecast), and the session cache of        *)
(* weather_manager/agent.py (get_session).  Spec is the callbacks on one   *)
(* session over many forecasts; SessionSpec is the cache with the          *)
(* callbacks working on its records; PipelineSpec is a turn from the tool  *)
(* adapters of tools/weather_data.py through both callbacks; RaceSpec is   *)
(* two turns on one session id, statement by statement; HealthSpec is the  *)
(* AQI component and the allergen forecast of tools/health_impact_tools.py.*)
(*                                                                         *)
(* JSON values are tagged records: [t |-> "null"], [t |-> "num", n |-> i], *)
(* [t |-> "str", s |-> str], [t |-> "list", items |-> seq] and             *)
(* [t |-> "dict", d |-> function from keys to values].  Inside a forecast  *)
(* document the value of "daily" is a function from the daily keys that    *)
(* are present to sequences of integers (one entry per day).               *)
(*                                                                         *)
(* A text is a sequence of phrases; `marker in text` is the occurrence of  *)
(* the marker phrase in the sequence.                                      *)
(***************************************************************************)
EXTENDS Integers, Sequences, FiniteSets, TLC

VARIABLES
    state,      \* the session state dict (session.get_state())
    candidate,  \* the text handed to the last after_model_callback
    output,     \* output.text after the last after_model_callback
    outcome,    \* "none" | "returned" | "raised": how the last validation ended
    log,        \* the records the last handler invocation sent to the logger
    evaluated,  \* the hazard checks the last validation called, in order
    prev,       \* the result of the validation before the last one, when it
                \* had the same candidate and the same stored forecast
    SESSIONS,   \* agent.py:21, the session cache: session id -> record
    op,         \* the last operation on the session cache, with the cache
                \* it found
    invoked,    \* the last call of a tool function: its input, what the
                \* upstream service did, and the value it returned
    pc,         \* the statement each concurrent caller of the cache is at
    local       \* the local variables of each concurrent caller

core_vars == <<state, candidate, output, outcome, log, evaluated, prev>>
store_vars == <<SESSIONS, op>>
tool_vars == <<invoked>>
race_vars == <<pc, local>>
aux_vars == <<tool_vars, race_vars>>
vars == <<core_vars, store_vars, aux_vars>>

(***************************************************************************)
(* Bounds of the model.                                                    *)
(***************************************************************************)
MaxEdits == 1     \* daily fields in which a forecast differs from an anchor
MaxTextLen == 1   \* phrases in a candidate response

(***************************************************************************)
(* callbacks.py:24-32, the rule thresholds.                                *)
(***************************************************************************)
TORNADO_GUST_KMH == 80
BLIZZARD_WIND_KMH == 56
BLIZZARD_TEMP_C == 0
FLOOD_PRECIP_MM == 25
EXTREME_HEAT_C == 35
EXTREME_COLD_C == 0
HIGH_WIND_KMH == 40
HIGH_UV_INDEX == 6
MODERATE_PRECIP_PROB == 60

(***************************************************************************)
(* The marker literals of after_model_callback and its fallback text.      *)
(***************************************************************************)
TORNADO_MARKER == "SEVERE WEATHER ALERT: TORNADO POTENTIAL"
BLIZZARD_MARKER == "SEVERE WEATHER ALERT: BLIZZARD CONDITIONS"
FLOOD_MARKER == "Flood Watch"
ICE_MARKER == "Ice Storm Advisory"
HEAT_MARKER == "Heat Advisory"
COLD_MARKER == "Cold Advisory"
FOG_MARKER == "Dense Fog Advisory"
WIND_MARKER == "High Winds"
UV_MARKER == "High UV Index"
PRECIP_MARKER == "prepare for wet or slick conditions"

Markers ==
    { TORNADO_MARKER, BLIZZARD_MARKER, FLOOD_MARKER, ICE_MARKER, HEAT_MARKER,
      COLD_MARKER, FOG_MARKER, WIND_MARKER, UV_MARKER, PRECIP_MARKER }

FALLBACK_TEXT ==
    << "I have detected a potentially severe weather event, but I am unable to generate the specific safety alert.",
       "Please consult your local weather authority immediately." >>

\* `marker in output.text`
Contains(text, marker) == \E i \in 1..Len(text) : text[i] = marker

(***************************************************************************)
(* Python values.                                                          *)
(***************************************************************************)
EmptyDict == [k \in {} |-> 0]

Range(s) == { s[i] : i \in 1..Len(s) }

\* max() and min() of a non-empty list; on an empty list Python raises
\* ValueError, which the callers below model as Raise.
PyMax(s) == CHOOSE x \in Range(s) : \A y \in Range(s) : y <= x
PyMin(s) == CHOOSE x \in Range(s) : \A y \in Range(s) : x <= y

\* The result of a call: a value, or an exception that propagates.
Ret(b) == [raised |-> FALSE, value |-> b]
Raise == [raised |-> TRUE, value |-> FALSE]

(***************************************************************************)
(* callbacks.py:37-82, the hazard checks.                                  *)
(***************************************************************************)
get_daily_data(data, key, default) ==
    LET daily == IF "daily" \in DOMAIN data THEN data["daily"] ELSE EmptyDict
    IN  IF key \in DOMAIN daily THEN daily[key] ELSE default

\* A faulty variant of check_tornadic_conditions: the gust comparison is not strict.
check_tornadic_conditions_inclusive(data) ==
    LET codes == get_daily_data(data, "weather_code", <<>>)
        gusts == get_daily_data(data, "wind_gusts_10m_max", <<0>>)
        has_severe_thunderstorm == \E i \in 1..Len(codes) : codes[i] \in {95, 96, 99}
    IN  IF gusts = <<>> THEN Raise
        ELSE Ret(has_severe_thunderstorm /\ PyMax(gusts) >= TORNADO_GUST_KMH)

check_tornadic_conditions(data) ==
    LET codes == get_daily_data(data, "weather_code", <<>>)
        gusts == get_daily_data(data, "wind_gusts_10m_max", <<0>>)
        has_severe_thunderstorm == \E i \in 1..Len(codes) : codes[i] \in {95, 96, 99}
    IN  IF gusts = <<>> THEN Raise
        ELSE Ret(has_severe_thunderstorm /\ PyMax(gusts) > TORNADO_GUST_KMH)

\* A faulty variant of check_blizzard_conditions: the default of the temperature list
\* is a freezing day.
check_blizzard_conditions_freezing_default(data) ==
    LET codes == get_daily_data(data, "weather_code", <<>>)
        winds == get_daily_data(data, "wind_speed_10m_max", <<0>>)
        temps == get_daily_data(data, "temperature_2m_max", <<-1>>)
        is_heavy_snow == \E i \in 1..Len(codes) : codes[i] = 75
    IN  IF winds = <<>> \/ temps = <<>> THEN Raise
        ELSE Ret(/\ is_heavy_snow
                 /\ PyMax(winds) > BLIZZARD_WIND_KMH
                 /\ PyMax(temps) < BLIZZARD_TEMP_C)

check_blizzard_conditions(data) ==
    LET codes == get_daily_data(data, "weather_code", <<>>)
        winds == get_daily_data(data, "wind_speed_10m_max", <<0>>)
        temps == get_daily_data(data, "temperature_2m_max", <<1>>)
        is_heavy_snow == \E i \in 1..Len(codes) : codes[i] = 75
    IN  IF winds = <<>> \/ temps = <<>> THEN Raise
        ELSE Ret(/\ is_heavy_snow
                 /\ PyMax(winds) > BLIZZARD_WIND_KMH
                 /\ PyMax(temps) < BLIZZARD_TEMP_C)

check_flood_watch(data) ==
    LET precip == get_daily_data(data, "precipitation_sum", <<0>>)
    IN  IF precip = <<>> THEN Raise ELSE Ret(PyMax(precip) > FLOOD_PRECIP_MM)

check_ice_storm(data) ==
    LET codes == get_daily_data(data, "weather_code", <<>>)
    IN  Ret(\E i \in 1..Len(codes) : codes[i] \in {66, 67})

\* callbacks.py:64 and 65, the two halves of the extreme-temperature check
is_extreme_heat(data) ==
    LET highs == get_daily_data(data, "apparent_temperature_max", <<0>>)
    IN  IF highs = <<>> THEN Raise ELSE Ret(PyMax(highs) > EXTREME_HEAT_C)

is_extreme_cold(data) ==
    LET lows == get_daily_data(data, "apparent_temperature_min", <<100>>)
    IN  IF lows = <<>> THEN Raise ELSE Ret(PyMin(lows) < EXTREME_COLD_C)

check_extreme_temps(data) ==
    LET heat == is_extreme_heat(data)
        cold == is_extreme_cold(data)
    IN  IF heat.raised \/ cold.raised THEN Raise
        ELSE Ret(heat.value \/ cold.value)

check_dense_fog(data) ==
    LET codes == get_daily_data(data, "weather_code", <<>>)
    IN  Ret(\E i \in 1..Len(codes) : codes[i] \in {45, 48})

check_high_winds(data) ==
    LET winds == get_daily_data(data, "wind_speed_10m_max", <<0>>)
    IN  IF winds = <<>> THEN Raise ELSE Ret(PyMax(winds) > HIGH_WIND_KMH)

check_uv_index(data) ==
    LET uv == get_daily_data(data, "uv_index_max", <<0>>)
    IN  IF uv = <<>> THEN Raise ELSE Ret(PyMax(uv) >= HIGH_UV_INDEX)

check_moderate_precipitation(data) ==
    LET prob == get_daily_data(data, "precipitation_probability_max", <<0>>)
    IN  IF prob = <<>> THEN Raise ELSE Ret(PyMax(prob) > MODERATE_PRECIP_PROB)

(***************************************************************************)
(* callbacks.py:109-158, after_model_callback: the guardrail engine.       *)
(* Its result is a record: raised (an exception left the callback), text   *)
(* (output.text when it ended), log (the logger calls it made, in order)   *)
(* and evaluated (the hazard checks it called, in order).                  *)
(***************************************************************************)
Ev(level, what) == [level |-> level, what |-> what]

\* state.get(key): None when the key is absent
StateGet(st, key) == IF key \in DOMAIN st THEN st[key] ELSE [t |-> "null"]

\* isinstance(raw_weather_data, dict)
IsDict(v) == v.t = "dict"

\* A faulty variant of advisory_step: a missing advisory also replaces the response.
advisory_step_rewrites(acc, hazard, res, marker_missing) ==
    IF acc.raised THEN acc
    ELSE IF res.raised
         THEN [acc EXCEPT !.raised = TRUE, !.evaluated = Append(@, hazard)]
         ELSE IF res.value /\ marker_missing
              THEN [acc EXCEPT !.evaluated = Append(@, hazard),
                               !.log = Append(@, Ev("warning", hazard)),
                               !.text = FALLBACK_TEXT]
              ELSE [acc EXCEPT !.evaluated = Append(@, hazard)]

\* A faulty variant of advisory_step: every triggered advisory is logged, whether or
\* not its marker is in the response.
advisory_step_logs_triggered(acc, hazard, res, marker_missing) ==
    IF acc.raised THEN acc
    ELSE IF res.raised
         THEN [acc EXCEPT !.raised = TRUE, !.evaluated = Append(@, hazard)]
         ELSE [acc EXCEPT !.evaluated = Append(@, hazard),
                          !.log = IF res.value
                                  THEN Append(@, Ev("warning", hazard))
                                  ELSE @]

\* One Tier 2 / Tier 1 statement, `if _check_x(data) and <marker test>:
\* logger.warning(...)`, run after the statements that produced acc.
advisory_step(acc, hazard, res, marker_missing) ==
    IF acc.raised THEN acc
    ELSE IF res.raised
         THEN [acc EXCEPT !.raised = TRUE, !.evaluated = Append(@, hazard)]
         ELSE [acc EXCEPT !.evaluated = Append(@, hazard),
                          !.log = IF res.value /\ marker_missing
                                  THEN Append(@, Ev("warning", hazard))
                                  ELSE @]

\* callbacks.py:142, the marker test of the extreme-temperature advisory
extreme_temps_marker_missing(text) ==
    ~(Contains(text, HEAT_MARKER) \/ Contains(text, COLD_MARKER))

\* callbacks.py:133-158, the advisory tiers and the normal return
advisories(data, text, acc0) ==
    LET a1 == advisory_step(acc0, "FloodWatch", check_flood_watch(data),
                            ~Contains(text, FLOOD_MARKER))
        a2 == advisory_step(a1, "IceStorm", check_ice_storm(data),
                            ~Contains(text, ICE_MARKER))
        a3 == advisory_step(a2, "ExtremeTemperature", check_extreme_temps(data),
                            extreme_temps_marker_missing(text))
        a4 == advisory_step(a3, "DenseFog", check_dense_fog(data),
                            ~Contains(text, FOG_MARKER))
        a5 == advisory_step(a4, "HighWinds", check_high_winds(data),
                            ~Contains(text, WIND_MARKER))
        a6 == advisory_step(a5, "HighUV", check_uv_index(data),
                            ~Contains(text, UV_MARKER))
        a7 == advisory_step(a6, "ModeratePrecipitation",
                            check_moderate_precipitation(data),
                            ~Contains(text, PRECIP_MARKER))
    IN  IF a7.raised THEN a7
        ELSE [a7 EXCEPT !.log = Append(@, Ev("info", "Validation Complete"))]

\* A faulty variant of tier3_rewrite: the fallback is put in front of the response.
tier3_rewrite_prefixes(acc, hazard) ==
    [acc EXCEPT !.text = FALLBACK_TEXT \o @,
                !.log = Append(@, Ev("critical", hazard)),
                !.evaluated = Append(@, hazard)]

\* callbacks.py:124-126 and 129-131: the Tier 3 override
tier3_rewrite(acc, hazard) ==
    [acc EXCEPT !.text = FALLBACK_TEXT,
                !.log = Append(@, Ev("critical", hazard)),
                !.evaluated = Append(@, hazard)]

\* A faulty variant of blizzard_stage: the `return output` of line 131 is missing, so
\* the advisory statements run on the rewritten text.
blizzard_stage_falls_through(data, text, acc) ==
    LET bliz == check_blizzard_conditions(data)
    IN  IF bliz.raised
        THEN [acc EXCEPT !.raised = TRUE, !.evaluated = Append(@, "Blizzard")]
        ELSE IF bliz.value /\ ~Contains(text, BLIZZARD_MARKER)
             THEN advisories(data, FALLBACK_TEXT, tier3_rewrite(acc, "Blizzard"))
             ELSE advisories(data, text,
                             [acc EXCEPT !.evaluated = Append(@, "Blizzard")])

\* callbacks.py:128-131, the Blizzard statement, then the advisory tiers
blizzard_stage(data, text, acc) ==
    LET bliz == check_blizzard_conditions(data)
    IN  IF bliz.raised
        THEN [acc EXCEPT !.raised = TRUE, !.evaluated = Append(@, "Blizzard")]
        ELSE IF bliz.value /\ ~Contains(text, BLIZZARD_MARKER)
             THEN tier3_rewrite(acc, "Blizzard")
             ELSE advisories(data, text,
                             [acc EXCEPT !.evaluated = Append(@, "Blizzard")])

\* A faulty variant of tornado_stage: the `return output` of line 126 is missing, so
\* the Blizzard statement runs on the rewritten text.
tornado_stage_falls_through(data, text, acc) ==
    LET torn == check_tornadic_conditions(data)
    IN  IF torn.raised
        THEN [acc EXCEPT !.raised = TRUE, !.evaluated = Append(@, "Tornado")]
        ELSE IF torn.value /\ ~Contains(text, TORNADO_MARKER)
             THEN blizzard_stage(data, FALLBACK_TEXT, tier3_rewrite(acc, "Tornado"))
             ELSE blizzard_stage(data, text,
                                 [acc EXCEPT !.evaluated = Append(@, "Tornado")])

\* callbacks.py:122-126, the Tornado statement, then the rest
tornado_stage(data, text, acc) ==
    LET torn == check_tornadic_conditions(data)
    IN  IF torn.raised
        THEN [acc EXCEPT !.raised = TRUE, !.evaluated = Append(@, "Tornado")]
        ELSE IF torn.value /\ ~Contains(text, TORNADO_MARKER)
             THEN tier3_rewrite(acc, "Tornado")
             ELSE blizzard_stage(data, text,
                                 [acc EXCEPT !.evaluated = Append(@, "Tornado")])

\* A faulty variant of skip_validation: without a forecast the callback fails closed.
skip_validation_fails_closed(acc) ==
    [acc EXCEPT !.log = Append(@, Ev("warning", "Skipped")),
                !.text = FALLBACK_TEXT]

\* callbacks.py:118-120, no forecast to validate against
skip_validation(acc) ==
    [acc EXCEPT !.log = Append(@, Ev("warning", "Skipped"))]

after_model_callback(st, text) ==
    LET raw_weather_data == StateGet(st, "raw_weather_data")
        acc == [raised |-> FALSE, text |-> text,
                log |-> << Ev("info", "Validation Start") >>,
                evaluated |-> << >>]
    IN  IF ~IsDict(raw_weather_data)
        THEN skip_validation(acc)
        ELSE tornado_stage(raw_weather_data.d, text, acc)

(***************************************************************************)
(* callbacks.py:87-106, after_tool_callback.  A tool result is what the    *)
(* framework hands over: [t |-> "none"] (not a string), [t |-> "garbage"]  *)
(* (a string that is no JSON) or [t |-> "json", val |-> v] (the JSON text  *)
(* of the value v).  The result is the new session state and the logger    *)
(* calls made.                                                             *)
(***************************************************************************)
WEATHER_TOOL == "get_weather_for_location"
LOCATION_TOOL == "get_coordinates_for_location_string"

\* json.loads(result): TypeError for a non-string, JSONDecodeError for text
\* that is no JSON, else the decoded value
json_loads(result) ==
    IF result.t = "json"
    THEN [raised |-> FALSE, value |-> result.val]
    ELSE [raised |-> TRUE, value |-> [t |-> "null"]]

\* `"full_address" in data`: a key test on a dict, an element test on a
\* list, a substring test on a string, TypeError on a number or None
has_full_address(data) ==
    CASE data.t = "dict" -> Ret("full_address" \in DOMAIN data.d)
      [] data.t = "list" ->
            Ret(\E i \in 1..Len(data.items) :
                    /\ data.items[i].t = "str"
                    /\ data.items[i].s = "full_address")
      [] data.t = "str" -> Ret(data.s = "full_address")
      [] OTHER -> Raise

\* A faulty variant of StateSet: the state is rebuilt from the written key alone.
StateSet_replaces(st, key, value) ==
    [k \in { key } |-> value]

\* state[key] = value
StateSet(st, key, value) ==
    [k \in DOMAIN st \cup {key} |-> IF k = key THEN value ELSE st[k]]

\* A faulty variant of after_tool_callback: the `"full_address" in data` test is
\* missing and the address is read with data.get("full_address").
after_tool_callback_unguarded(st, tool_name, result) ==
    LET executed == << Ev("info", "Tool Executed") >>
        failed == [state |-> st,
                   log |-> Append(executed, Ev("error", "Failed to decode JSON"))]
        loaded == json_loads(result)
        data == loaded.value
    IN  IF loaded.raised THEN failed
        ELSE IF tool_name = WEATHER_TOOL
        THEN [state |-> StateSet(st, "raw_weather_data", data),
              log |-> Append(executed, Ev("info", "Stored raw weather data"))]
        ELSE IF tool_name = LOCATION_TOOL
        THEN IF data.t # "dict" THEN failed
             ELSE [state |-> StateSet(st, "confirmed_location",
                                      IF "full_address" \in DOMAIN data.d
                                      THEN data.d["full_address"]
                                      ELSE [t |-> "null"]),
                   log |-> Append(executed, Ev("info", "Stored confirmed location"))]
        ELSE [state |-> st, log |-> executed]

\* A faulty variant of after_tool_callback: the test of line 96 is missing, so the
\* decoded result of any tool is stored as the forecast.
after_tool_callback_any_tool(st, tool_name, result) ==
    LET executed == << Ev("info", "Tool Executed") >>
        loaded == json_loads(result)
    IN  IF loaded.raised
        THEN [state |-> st,
              log |-> Append(executed, Ev("error", "Failed to decode JSON"))]
        ELSE [state |-> StateSet(st, "raw_weather_data", loaded.value),
              log |-> Append(executed, Ev("info", "Stored raw weather data"))]

after_tool_callback(st, tool_name, result) ==
    LET executed == << Ev("info", "Tool Executed") >>
        failed == [state |-> st,
                   log |-> Append(executed, Ev("error", "Failed to decode JSON"))]
        loaded == json_loads(result)
        data == loaded.value
    IN  IF loaded.raised THEN failed
        ELSE IF tool_name = WEATHER_TOOL
        THEN [state |-> StateSet(st, "raw_weather_data", data),
              log |-> Append(executed, Ev("info", "Stored raw weather data"))]
        ELSE IF tool_name = LOCATION_TOOL
        THEN LET has == has_full_address(data)
             IN  IF has.raised THEN failed
                 ELSE IF ~has.value THEN [state |-> st, log |-> executed]
                 \* data["full_address"] is a TypeError on a list or a string
                 ELSE IF data.t # "dict" THEN failed
                 ELSE [state |-> StateSet(st, "confirmed_location",
                                          data.d["full_address"]),
                       log |-> Append(executed, Ev("info", "Stored confirmed location"))]
        ELSE [state |-> st, log |-> executed]

(***************************************************************************)
(* The inputs: forecast documents, tool results, candidate responses.      *)
(***************************************************************************)
DailyKeys ==
    { "weather_code", "wind_gusts_10m_max", "wind_speed_10m_max",
      "temperature_2m_max", "precipitation_sum", "apparent_temperature_max",
      "apparent_temperature_min", "uv_index_max",
      "precipitation_probability_max" }

\* A forecast in which every value sits on its threshold: nothing triggers.
CalmDaily ==
    [k \in DailyKeys |->
        CASE k = "weather_code" -> << 0, 3 >>
          [] k = "wind_gusts_10m_max" -> << 35, 80 >>
          [] k = "wind_speed_10m_max" -> << 40, 12 >>
          [] k = "temperature_2m_max" -> << -3, 0 >>
          [] k = "precipitation_sum" -> << 25, 0 >>
          [] k = "apparent_temperature_max" -> << 35, 20 >>
          [] k = "apparent_temperature_min" -> << 0, 12 >>
          [] k = "uv_index_max" -> << 5, 1 >>
          [] k = "precipitation_probability_max" -> << 60, 10 >>]

\* A forecast in which every value is one past its threshold: all trigger.
SevereDaily ==
    [k \in DailyKeys |->
        CASE k = "weather_code" -> << 95, 75, 66, 45 >>
          [] k = "wind_gusts_10m_max" -> << 35, 81 >>
          [] k = "wind_speed_10m_max" -> << 57, 12 >>
          [] k = "temperature_2m_max" -> << -3, -1 >>
          [] k = "precipitation_sum" -> << 26, 0 >>
          [] k = "apparent_temperature_max" -> << 36, 20 >>
          [] k = "apparent_temperature_min" -> << -1, 12 >>
          [] k = "uv_index_max" -> << 6, 1 >>
          [] k = "precipitation_probability_max" -> << 61, 10 >>]

\* What an edit can put in a daily field: the empty list, the calm or the
\* severe series, and for the codes one series per hazard.
Series(k) ==
    { << >>, CalmDaily[k], SevereDaily[k] }
    \cup (IF k = "weather_code"
          THEN { << 96 >>, << 0, 99 >>, << 75 >>, << 67 >>, << 48 >> }
          ELSE IF k = "wind_speed_10m_max" THEN { << 41, 56 >> }
          ELSE { })

\* A forecast that carries every field with no day in it.
NoDaysDaily == [k \in DailyKeys |-> << >>]

Anchors == { CalmDaily, SevereDaily, NoDaysDaily }

\* An edit of a field: remove it, or (in a forecast with days) give it
\* another series.
Edits(anchor, k) ==
    { [present |-> FALSE, series |-> << >>] }
    \cup (IF anchor[k] = << >> THEN { }
          ELSE { [present |-> TRUE, series |-> s] : s \in Series(k) })

AllEdits == UNION { Edits(a, k) : a \in Anchors, k \in DailyKeys }

Edited(anchor, ch) ==
    [k \in { j \in DailyKeys : j \notin DOMAIN ch \/ ch[j].present } |->
        IF k \in DOMAIN ch THEN ch[k].series ELSE anchor[k]]

\* The daily dicts within MaxEdits edited fields of an anchor.
DailyDicts ==
    UNION { { Edited(anchor, ch) :
                ch \in { f \in [K -> AllEdits] :
                            \A k \in K : f[k] \in Edits(anchor, k) } } :
            anchor \in Anchors,
            K \in { S \in SUBSET DailyKeys : Cardinality(S) <= MaxEdits } }

JDict(d) == [t |-> "dict", d |-> d]
JStr(s) == [t |-> "str", s |-> s]

ERROR_ENVELOPE == JDict("error" :> JStr("Latitude must be in range [-90; 90]"))

ForecastDocs ==
    { JDict("daily" :> d) : d \in DailyDicts }
    \cup { JDict("daily" :> EmptyDict), JDict("latitude" :> 38) }

Addresses == { "Gardner, Kansas", "Washington, D.C., USA" }

LocationDocs ==
    { JDict([k \in { "latitude", "longitude", "full_address" } |->
                IF k = "full_address" THEN [t |-> "str", s |-> a]
                ELSE [t |-> "num", n |-> 0]]) : a \in Addresses }

OtherJson ==
    { [t |-> "null"], [t |-> "num", n |-> 7], [t |-> "str", s |-> "full_address"],
      [t |-> "list", items |-> << [t |-> "str", s |-> "full_address"] >>] }

Json(v) == [t |-> "json", val |-> v]

\* What a tool can hand over that is no forecast document.
PlainResults ==
    { Json(v) : v \in LocationDocs \cup OtherJson \cup { ERROR_ENVELOPE } }
    \cup { [t |-> "garbage"], [t |-> "none"] }

ToolResults == { Json(v) : v \in ForecastDocs } \cup PlainResults

\* The calls of the framework: the weather tool with any result, the other
\* tools with any result that is no forecast, or with the calm forecast.
ToolCalls ==
    { << WEATHER_TOOL, r >> : r \in ToolResults }
    \cup { << n, r >> :
            n \in { LOCATION_TOOL, "other_tool" },
            r \in PlainResults \cup { Json(JDict("daily" :> CalmDaily)) } }

\* The report that carries every marker, in the order the prompt asks for.
FULL_REPORT ==
    << TORNADO_MARKER, BLIZZARD_MARKER, FLOOD_MARKER, ICE_MARKER, HEAT_MARKER,
       COLD_MARKER, FOG_MARKER, "Weather Overview", WIND_MARKER, UV_MARKER,
       PRECIP_MARKER >>

\* The subsequence of s at the positions in I, in order.
RECURSIVE Pick(_, _)
Pick(s, I) ==
    IF I = { } THEN << >>
    ELSE LET m == CHOOSE i \in I : \A j \in I : j <= i
         IN  Append(Pick(s, I \ { m }), s[m])

\* Candidate responses: the full report, and the reports that keep at most
\* MaxTextLen of its phrases.
Candidates ==
    { FULL_REPORT }
    \cup { Pick(FULL_REPORT, I) :
            I \in { J \in SUBSET (1..Len(FULL_REPORT)) : Cardinality(J) <= MaxTextLen } }

(***************************************************************************)
(* agent.py:21-30, the session cache.  get_session gives the new cache and *)
(* the record it returns.                                                  *)
(***************************************************************************)
None == [t |-> "null"]

\* agent.py:26-29, the record of a new session
NEW_SESSION == [k \in { "confirmed_location", "last_weather_data" } |-> None]

\* A faulty variant of get_session: the `if session_id not in SESSIONS` test is
\* missing, so every call starts the session afresh.
get_session_resets(sessions, session_id) ==
    LET cache == [i \in DOMAIN sessions \cup { session_id } |->
                    IF i = session_id THEN NEW_SESSION ELSE sessions[i]]
    IN  [SESSIONS |-> cache, ret |-> cache[session_id]]

get_session(sessions, session_id) ==
    LET cache == IF session_id \notin DOMAIN sessions
                 THEN [i \in DOMAIN sessions \cup { session_id } |->
                          IF i = session_id THEN NEW_SESSION ELSE sessions[i]]
                 ELSE sessions
    IN  [SESSIONS |-> cache, ret |-> cache[session_id]]

\* The last operation on the cache: its name and arguments, the cache it
\* found, what it returned or left in the session, the logger calls it made
\* and whether an exception left it.
NoOp ==
    [name |-> "none", id |-> "", tool |-> "", result |-> [t |-> "none"],
     text |-> << >>, before |-> EmptyDict, ret |-> EmptyDict, log |-> << >>,
     raised |-> FALSE, after_malformed |-> FALSE]

\* No tool function was called yet.
NoCall ==
    [fn |-> "none", input |-> None, upstream |-> "none", raised |-> FALSE,
     ret |-> [t |-> "none"]]

\* Two turns of one conversation that reach the session cache at the same time.
Callers == { "turn_a", "turn_b" }
\* The locals of a turn that has not begun: the arguments it will pass, the dict
\* get_session returned to it (`live` while that dict is the one in the cache,
\* else its contents are in `session`), and the state get_state returned to it
\* (`alias` when that is the session's dict itself, else its contents are in `state`).
NoLocal ==
    [session_id |-> "", tool |-> "", result |-> None, session |-> EmptyDict,
     live |-> FALSE, state |-> EmptyDict, alias |-> FALSE, overlapped |-> FALSE]

(***************************************************************************)
(* The state machine: the framework calls after_tool_callback after every  *)
(* tool and after_model_callback on every final model response.            *)
(***************************************************************************)
NoPrev ==
    [known |-> FALSE, text |-> << >>, raised |-> FALSE, log |-> << >>,
     state |-> EmptyDict]

Init ==
    /\ state = EmptyDict
    /\ candidate = << >>
    /\ output = << >>
    /\ outcome = "none"
    /\ log = << >>
    /\ evaluated = << >>
    /\ prev = NoPrev
    /\ SESSIONS = EmptyDict
    /\ op = NoOp
    /\ invoked = NoCall
    /\ pc = [p \in Callers |-> "idle"]
    /\ local = [p \in Callers |-> NoLocal]

\* A tool ran, before the model's response of the turn.  A turn runs one
\* tool: a second tool in the turn leads to the session states and logs
\* that it leads to as the tool of the next turn.
AfterToolCallback ==
    /\ outcome = "none"
    /\ log = << >>
    /\ \E call \in ToolCalls :
        LET r == after_tool_callback(state, call[1], call[2])
        IN  /\ state' = r.state
            /\ log' = r.log
    /\ UNCHANGED << candidate, output, outcome, evaluated, prev >>
    /\ UNCHANGED <<store_vars, aux_vars>>

\* A faulty variant of AfterModelCallback: a repeated validation reads the text the
\* first one left in the output object.
AfterModelCallbackInPlace ==
    \E text \in IF outcome = "none" THEN Candidates ELSE { candidate } :
        LET r == after_model_callback(state, IF outcome = "none" THEN text ELSE output)
        IN  /\ candidate' = text
            /\ output' = r.text
            /\ outcome' = IF r.raised THEN "raised" ELSE "returned"
            /\ log' = r.log
            /\ evaluated' = r.evaluated
            /\ prev' = IF outcome # "none"
                       THEN [known |-> TRUE, text |-> output,
                             raised |-> outcome = "raised", log |-> log,
                             state |-> state]
                       ELSE NoPrev
            /\ UNCHANGED state
            /\ UNCHANGED <<store_vars, aux_vars>>

\* The model answered with `text`; the callback does not call set_state.
\* A response of the turn can be validated again; another response leads to
\* the states that it leads to at the start of the turn.
AfterModelCallback ==
    \E text \in IF outcome = "none" THEN Candidates ELSE { candidate } :
        LET r == after_model_callback(state, text)
        IN  /\ candidate' = text
            /\ output' = r.text
            /\ outcome' = IF r.raised THEN "raised" ELSE "returned"
            /\ log' = r.log
            /\ evaluated' = r.evaluated
            /\ prev' = IF outcome # "none"
                       THEN [known |-> TRUE, text |-> output,
                             raised |-> outcome = "raised", log |-> log,
                             state |-> state]
                       ELSE NoPrev
            /\ UNCHANGED state
            /\ UNCHANGED <<store_vars, aux_vars>>

\* The response was released (or the failure reported): the next user
\* query starts a new turn on the same session.
NewTurn ==
    /\ outcome # "none"
    /\ candidate' = << >>
    /\ output' = << >>
    /\ outcome' = "none"
    /\ log' = << >>
    /\ evaluated' = << >>
    /\ prev' = NoPrev
    /\ UNCHANGED state
    /\ UNCHANGED <<store_vars, aux_vars>>

Next == AfterToolCallback \/ AfterModelCallback \/ NewTurn

Spec == Init /\ [][Next]_vars

(***************************************************************************)
(* The session cache under the callbacks: the session the framework hands  *)
(* to the callbacks of a conversation holds the record get_session gave    *)
(* for its id (get_state returns it, set_state stores it back).            *)
(***************************************************************************)
SessionIds == { "s1", "s2" }

\* weather_data.py:39 and 42, error envelopes of the location resolver
LOCATION_ERRORS ==
    { JDict("error" :> JStr("Location 'Atlantis' not found.")),
      JDict("error" :> JStr("Geocoding service timed out. Please try again later.")) }

SessionForecasts == { JDict("daily" :> CalmDaily), JDict("daily" :> NoDaysDaily) }

\* A tool result that is no JSON, or JSON that is no object.
Malformed(result) ==
    \/ result.t \in { "none", "garbage" }
    \/ result.t = "json" /\ result.val.t \in { "null", "num", "str", "list" }

SessionCalls ==
    { << WEATHER_TOOL, r >> :
        r \in { Json(v) : v \in SessionForecasts \cup { ERROR_ENVELOPE } \cup OtherJson }
              \cup { [t |-> "garbage"], [t |-> "none"] } }
    \cup { << LOCATION_TOOL, r >> :
        r \in { Json(v) : v \in LocationDocs \cup LOCATION_ERRORS \cup OtherJson
                                  \cup { [t |-> "list", items |-> << >>] } }
              \cup { [t |-> "garbage"], [t |-> "none"] } }
    \cup { << "other_tool", r >> :
        r \in { Json(v) : v \in LocationDocs \cup { [t |-> "num", n |-> 7] } }
              \cup { [t |-> "garbage"] } }

SessionTexts == { << >>, FULL_REPORT }

\* agent.py:23-30
GetSession ==
    /\ \E id \in SessionIds :
        LET r == get_session(SESSIONS, id)
        IN  /\ SESSIONS' = r.SESSIONS
            /\ op' = [NoOp EXCEPT !.name = "get_session", !.id = id,
                                  !.before = SESSIONS, !.ret = r.ret]
    /\ UNCHANGED <<core_vars, aux_vars>>

\* callbacks.py:87-106 on the session of a conversation
SessionToolCallback ==
    /\ \E id \in DOMAIN SESSIONS, call \in SessionCalls :
        LET r == after_tool_callback(SESSIONS[id], call[1], call[2])
        IN  /\ SESSIONS' = [SESSIONS EXCEPT ![id] = r.state]
            /\ op' = [NoOp EXCEPT !.name = "after_tool_callback", !.id = id,
                                  !.tool = call[1], !.result = call[2],
                                  !.before = SESSIONS, !.ret = r.state,
                                  !.log = r.log]
    /\ UNCHANGED <<core_vars, aux_vars>>

\* callbacks.py:109-158 on the session of a conversation
SessionModelCallback ==
    /\ \E id \in DOMAIN SESSIONS, text \in SessionTexts :
        LET r == after_model_callback(SESSIONS[id], text)
        IN  op' = [NoOp EXCEPT !.name = "after_model_callback", !.id = id,
                               !.text = text, !.before = SESSIONS,
                               !.ret = SESSIONS[id], !.log = r.log,
                               !.raised = r.raised,
                               !.after_malformed =
                                    /\ op.name = "after_tool_callback"
                                    /\ op.id = id
                                    /\ Malformed(op.result)]
    /\ UNCHANGED SESSIONS
    /\ UNCHANGED <<core_vars, aux_vars>>

SessionNext == GetSession \/ SessionToolCallback \/ SessionModelCallback

SessionSpec == Init /\ [][SessionNext]_vars

(***************************************************************************)
(* Vocabulary of the properties.                                           *)
(***************************************************************************)
Validated == outcome # "none"
Returned == outcome = "returned"

\* The value the last validation read from the session.
Stored == StateGet(state, "raw_weather_data")
HasForecast == IsDict(Stored)

\* A check completed and found its hazard.
Triggered(res) == ~res.raised /\ res.value

TornadoTriggered == HasForecast /\ Triggered(check_tornadic_conditions(Stored.d))
BlizzardTriggered == HasForecast /\ Triggered(check_blizzard_conditions(Stored.d))

Logged(level, what) == \E i \in 1..Len(log) : log[i] = Ev(level, what)
CriticalEvents == { i \in 1..Len(log) : log[i].level = "critical" }
Checked(hazard) == \E i \in 1..Len(evaluated) : evaluated[i] = hazard

\* A Tier 3 hazard is triggered and the candidate lacks its marker.
Tier3MarkerMissing ==
    \/ TornadoTriggered /\ ~Contains(candidate, TORNADO_MARKER)
    \/ BlizzardTriggered /\ ~Contains(candidate, BLIZZARD_MARKER)

(***************************************************************************)
(* C1.  A triggered Tornado or Blizzard whose marker the candidate lacks   *)
(* makes after_model_callback return exactly the fallback message.         *)
(* Fails: the Tornado check raises on an empty wind_gusts_10m_max list     *)
(* before the triggered Blizzard is looked at (the empty-list fault of     *)
(* C10), so nothing is returned.                                           *)
(***************************************************************************)
C1_Tier3MissingMarkerReturnsFallback ==
    (Validated /\ Tier3MarkerMissing) => (Returned /\ output = FALLBACK_TEXT)

(***************************************************************************)
(* C2.  With no forecast in the session (raw_weather_data absent or not a  *)
(* dict) the candidate is returned unchanged and no hazard check runs.     *)
(***************************************************************************)
C2_NoForecastPassThrough ==
    (Validated /\ ~HasForecast) =>
        (Returned /\ output = candidate /\ evaluated = << >>)

C2_Witness ==
    /\ Validated
    /\ "raw_weather_data" \in DOMAIN state
    /\ Stored.t = "list"
    /\ candidate = << HEAT_MARKER >>

(***************************************************************************)
(* C3.  The text after a validation is the candidate or the fallback text, *)
(* never anything else.                                                    *)
(***************************************************************************)
C3_WholeResponseOnly ==
    Validated => (output = candidate \/ output = FALLBACK_TEXT)

C3_Witness ==
    /\ Returned
    /\ output = FALLBACK_TEXT
    /\ candidate = << BLIZZARD_MARKER >>

(***************************************************************************)
(* C4.  Tier 3 precedence: with Tornado and Blizzard both triggered and    *)
(* the Tornado marker missing, the fallback is returned, the log holds     *)
(* exactly one critical event, Tornado's, and Blizzard is never checked.   *)
(***************************************************************************)
C4_Tier3Precedence ==
    (/\ Validated
     /\ TornadoTriggered
     /\ BlizzardTriggered
     /\ ~Contains(candidate, TORNADO_MARKER)) =>
        /\ Returned
        /\ output = FALLBACK_TEXT
        /\ Cardinality(CriticalEvents) = 1
        /\ Logged("critical", "Tornado")
        /\ ~Checked("Blizzard")

C4_Witness ==
    /\ Validated
    /\ TornadoTriggered
    /\ BlizzardTriggered
    /\ candidate = << >>
    /\ output = FALLBACK_TEXT

(***************************************************************************)
(* The hazards of the specification, each with the check that decides it,  *)
(* its own marker, and the name under which the callback logs it.          *)
(***************************************************************************)
Tier3Hazards == { "Tornado", "Blizzard" }
Tier2Hazards == { "FloodWatch", "IceStorm", "ExtremeHeat", "ExtremeCold", "DenseFog" }
Tier1Hazards == { "HighWinds", "HighUV", "ModeratePrecipitation" }

HazardCheck(h, data) ==
    CASE h = "Tornado" -> check_tornadic_conditions(data)
      [] h = "Blizzard" -> check_blizzard_conditions(data)
      [] h = "FloodWatch" -> check_flood_watch(data)
      [] h = "IceStorm" -> check_ice_storm(data)
      [] h = "ExtremeHeat" -> is_extreme_heat(data)
      [] h = "ExtremeCold" -> is_extreme_cold(data)
      [] h = "ExtremeTemperature" -> check_extreme_temps(data)
      [] h = "DenseFog" -> check_dense_fog(data)
      [] h = "HighWinds" -> check_high_winds(data)
      [] h = "HighUV" -> check_uv_index(data)
      [] h = "ModeratePrecipitation" -> check_moderate_precipitation(data)

OwnMarker(h) ==
    CASE h = "Tornado" -> TORNADO_MARKER
      [] h = "Blizzard" -> BLIZZARD_MARKER
      [] h = "FloodWatch" -> FLOOD_MARKER
      [] h = "IceStorm" -> ICE_MARKER
      [] h = "ExtremeHeat" -> HEAT_MARKER
      [] h = "ExtremeCold" -> COLD_MARKER
      [] h = "DenseFog" -> FOG_MARKER
      [] h = "HighWinds" -> WIND_MARKER
      [] h = "HighUV" -> UV_MARKER
      [] h = "ModeratePrecipitation" -> PRECIP_MARKER

EventName(h) ==
    IF h \in { "ExtremeHeat", "ExtremeCold" } THEN "ExtremeTemperature" ELSE h

\* The names under which the callback evaluates and logs hazards.
LoggedHazards ==
    { "Tornado", "Blizzard", "FloodWatch", "IceStorm", "ExtremeTemperature",
      "DenseFog", "HighWinds", "HighUV", "ModeratePrecipitation" }

\* The marker test the callback applies to a hazard it logs.
MarkerTestFails(h) ==
    IF h = "ExtremeTemperature"
    THEN ~Contains(candidate, HEAT_MARKER) /\ ~Contains(candidate, COLD_MARKER)
    ELSE ~Contains(candidate, OwnMarker(h))

HazardEvent(h) == \E i \in 1..Len(log) : log[i].what = h

(***************************************************************************)
(* C5.  Without a Tier 3 violation the response is never changed, whatever *)
(* Tier 2 and Tier 1 hazards are triggered and whatever markers are        *)
(* missing.                                                                *)
(***************************************************************************)
C5_AdvisoriesNeverChangeResponse ==
    (Validated /\ ~Tier3MarkerMissing) => output = candidate

C5_Witness ==
    /\ Returned
    /\ HasForecast
    /\ Logged("warning", "FloodWatch")
    /\ Logged("warning", "HighUV")
    /\ candidate = << ICE_MARKER >>
    /\ output = candidate

(***************************************************************************)
(* C6.  Without a Tier 3 rewrite, every Tier 2 and Tier 1 hazard that is   *)
(* triggered and whose own marker the candidate lacks gets an advisory     *)
(* event.  Fails: Heat and Cold share one test that either marker          *)
(* satisfies, so ExtremeHeat with only the Cold Advisory marker present    *)
(* logs nothing.                                                           *)
(***************************************************************************)
C6_EachAdvisoryOwnMarker ==
    (Returned /\ HasForecast /\ CriticalEvents = { }) =>
        \A h \in Tier2Hazards \cup Tier1Hazards :
            (/\ Triggered(HazardCheck(h, Stored.d))
             /\ ~Contains(candidate, OwnMarker(h))) =>
                Logged("warning", EventName(h))

(***************************************************************************)
(* C7 as claimed.  The log of a validation holds an entry for every hazard *)
(* it evaluated, and a critical event when the response was rewritten.     *)
(* Fails: a hazard that is not triggered, or whose marker is found, leaves *)
(* no entry.                                                               *)
(***************************************************************************)
C7_AuditTupleForEveryHazard ==
    Validated =>
        /\ \A i \in 1..Len(evaluated) : HazardEvent(evaluated[i])
        /\ output # candidate => CriticalEvents # { }

(***************************************************************************)
(* C7 as amended.  Every validation logs a start event; a hazard has an    *)
(* event exactly when its check was reached, found it triggered and its    *)
(* marker test failed (critical for Tier 3, warning below); the response   *)
(* is rewritten exactly when a critical event was logged.                  *)
(***************************************************************************)
C7_AuditOnlyOnMissingMarker ==
    Validated =>
        /\ log[1] = Ev("info", "Validation Start")
        /\ \A h \in LoggedHazards :
            /\ HazardEvent(h) <=>
                    /\ Checked(h)
                    /\ Triggered(HazardCheck(h, Stored.d))
                    /\ MarkerTestFails(h)
            /\ HazardEvent(h) =>
                    Logged(IF h \in Tier3Hazards THEN "critical" ELSE "warning", h)
        /\ output # candidate <=> CriticalEvents # { }

C7_Witness ==
    /\ Returned
    /\ output = FALLBACK_TEXT
    /\ Logged("critical", "Blizzard")
    /\ Checked("Tornado")
    /\ ~HazardEvent("Tornado")
    /\ candidate = << TORNADO_MARKER >>

C9_AllMarkersRoundTrip ==
    (/\ Validated
     /\ HasForecast
     /\ \A h \in Tier3Hazards \cup Tier2Hazards :
            Triggered(HazardCheck(h, Stored.d)) => Contains(candidate, OwnMarker(h))) =>
        (Returned /\ output = candidate)

(***************************************************************************)
(* C10.  On a forecast whose daily sequences are all absent or empty every *)
(* hazard check completes and returns not-triggered.  Fails: max() of a    *)
(* present but empty list raises ValueError; only an absent key gets the   *)
(* sentinel default.                                                       *)
(***************************************************************************)
AllSeriesEmptyOrAbsent(data) ==
    \A k \in DailyKeys : get_daily_data(data, k, << >>) = << >>

C10_EmptyForecastNeverTriggers ==
    (HasForecast /\ AllSeriesEmptyOrAbsent(Stored.d)) =>
        \A h \in LoggedHazards :
            LET res == HazardCheck(h, Stored.d)
            IN  ~res.raised /\ ~res.value

(***************************************************************************)
(* The rule table of the specification, stated on the daily sequences      *)
(* themselves: "the maximum is above x" is "some day is above x", "the     *)
(* maximum is below x" is "there is a day and every day is below x".  An   *)
(* absent sequence is the empty one.                                       *)
(***************************************************************************)
Daily(k) == get_daily_data(Stored.d, k, << >>)
Present(k) == "daily" \in DOMAIN Stored.d /\ k \in DOMAIN Stored.d["daily"]

SomeDayIn(k, S) == \E i \in 1..Len(Daily(k)) : Daily(k)[i] \in S
SomeDayAbove(k, x) == \E i \in 1..Len(Daily(k)) : Daily(k)[i] > x
SomeDayAtLeast(k, x) == \E i \in 1..Len(Daily(k)) : Daily(k)[i] >= x
SomeDayBelow(k, x) == \E i \in 1..Len(Daily(k)) : Daily(k)[i] < x
EveryDayBelow(k, x) ==
    Daily(k) # << >> /\ \A i \in 1..Len(Daily(k)) : Daily(k)[i] < x

\* The sentinel the specification names for a sequence.
Sentinel(k) ==
    IF k = "weather_code" THEN << >>
    ELSE IF k = "apparent_temperature_min" THEN << 100 >> ELSE << 0 >>

\* The forecast with the sequence k replaced by its sentinel.
WithSentinel(data, k) ==
    LET daily == IF "daily" \in DOMAIN data THEN data["daily"] ELSE EmptyDict
    IN  [j \in DOMAIN data \cup { "daily" } |->
            IF j = "daily"
            THEN [f \in DOMAIN daily \cup { k } |->
                    IF f = k THEN Sentinel(k) ELSE daily[f]]
            ELSE data[j]]

(***************************************************************************)
(* C11.  A hazard check on a forecast in which a sequence is absent or     *)
(* empty gives what it gives with the sentinel in place of that sequence.  *)
(* Fails: a present but empty list makes max() or min() raise ValueError   *)
(* (the fault of C10); only an absent key is replaced by the sentinel.     *)
(***************************************************************************)
C11_SentinelSubstitution ==
    HasForecast =>
        \A k \in DailyKeys :
            Daily(k) = << >> =>
                \A h \in LoggedHazards :
                    HazardCheck(h, Stored.d) = HazardCheck(h, WithSentinel(Stored.d, k))

(***************************************************************************)
(* C12.  Tornado is triggered exactly when some daily weather code is in   *)
(* {95, 96, 99} and some daily gust maximum is above 80; with a gust       *)
(* maximum of exactly 80 it is not.  (On an empty gust list the check      *)
(* raises, which is not a trigger either.)                                 *)
(***************************************************************************)
C12_TornadoRule ==
    HasForecast =>
        (Triggered(check_tornadic_conditions(Stored.d)) <=>
            /\ SomeDayIn("weather_code", { 95, 96, 99 })
            /\ SomeDayAbove("wind_gusts_10m_max", 80))

C12_Witness ==
    /\ Returned
    /\ HasForecast
    /\ Daily("weather_code") = << 96 >>
    /\ Daily("wind_gusts_10m_max") = << 35, 80 >>
    /\ Checked("Tornado")
    /\ candidate = << >>
    /\ output = << >>

(***************************************************************************)
(* C13.  Blizzard is triggered exactly when code 75 is among the daily     *)
(* weather codes, some daily wind speed maximum is above 56 and every      *)
(* daily maximum temperature is below 0; without the temperature sequence  *)
(* it is never triggered.                                                  *)
(***************************************************************************)
C13_BlizzardRule ==
    HasForecast =>
        /\ Triggered(check_blizzard_conditions(Stored.d)) <=>
                /\ SomeDayIn("weather_code", { 75 })
                /\ SomeDayAbove("wind_speed_10m_max", 56)
                /\ EveryDayBelow("temperature_2m_max", 0)
        /\ ~Present("temperature_2m_max") =>
                ~Triggered(check_blizzard_conditions(Stored.d))

C13_Witness ==
    /\ Returned
    /\ HasForecast
    /\ SomeDayIn("weather_code", { 75 })
    /\ SomeDayAbove("wind_speed_10m_max", 56)
    /\ ~Present("temperature_2m_max")
    /\ Checked("Blizzard")
    /\ candidate = << TORNADO_MARKER >>
    /\ output = candidate

(***************************************************************************)
(* C14.  The Tier 2 and Tier 1 checks equal the rule table.  Fails: the    *)
(* extreme-temperature check raises on an empty apparent_temperature_min   *)
(* list (the fault of C10) although a day of the apparent_temperature_max  *)
(* list is above 35, and likewise with the two lists exchanged.            *)
(***************************************************************************)
C14_AdvisoryRuleTable ==
    HasForecast =>
        /\ Triggered(check_flood_watch(Stored.d)) <=>
                SomeDayAbove("precipitation_sum", 25)
        /\ Triggered(check_ice_storm(Stored.d)) <=>
                SomeDayIn("weather_code", { 66, 67 })
        /\ Triggered(check_extreme_temps(Stored.d)) <=>
                \/ SomeDayAbove("apparent_temperature_max", 35)
                \/ SomeDayBelow("apparent_temperature_min", 0)
        /\ Triggered(check_dense_fog(Stored.d)) <=>
                SomeDayIn("weather_code", { 45, 48 })
        /\ Triggered(check_high_winds(Stored.d)) <=>
                SomeDayAbove("wind_speed_10m_max", 40)
        /\ Triggered(check_uv_index(Stored.d)) <=>
                SomeDayAtLeast("uv_index_max", 6)
        /\ Triggered(check_moderate_precipitation(Stored.d)) <=>
                SomeDayAbove("precipitation_probability_max", 60)

(***************************************************************************)
(* Error envelopes: a tool adapter reports a failure as a JSON object with *)
(* an "error" key.  A forecast record is a JSON object without one.        *)
(***************************************************************************)
IsErrorEnvelope(v) == v.t = "dict" /\ "error" \in DOMAIN v.d
IsForecastRecord(v) == v.t = "dict" /\ "error" \notin DOMAIN v.d

(***************************************************************************)
(* C17.  A validation that finds an error envelope of the forecast fetcher *)
(* in the session runs no hazard check on it.  Fails: after_tool_callback  *)
(* stores the envelope as raw_weather_data, the envelope is a dict, and    *)
(* after_model_callback runs every check on it.                            *)
(***************************************************************************)
C17_NoClassificationOfErrorEnvelope ==
    (Validated /\ IsErrorEnvelope(Stored)) => evaluated = << >>

(***************************************************************************)
(* C18.  The stored forecast is always null, absent or a forecast record,  *)
(* and no step replaces a stored forecast record by anything else.  Fails: *)
(* after_tool_callback stores whatever JSON value the forecast fetcher     *)
(* returned, an error envelope included, over the forecast stored before.  *)
(***************************************************************************)
C18_StoredForecastNeverAnError ==
    [][ /\ Stored'.t = "null" \/ IsForecastRecord(Stored')
        /\ IsForecastRecord(Stored) => IsForecastRecord(Stored') ]_vars

(***************************************************************************)
(* C15.  get_session on an unknown id adds a record with both fields None  *)
(* and returns it; on a known id it returns the record as it is and leaves *)
(* the cache alone.  No operation removes a session.                       *)
(***************************************************************************)
C15_GetOrCreate ==
    /\ DOMAIN op.before \subseteq DOMAIN SESSIONS
    /\ op.name = "get_session" =>
        /\ DOMAIN SESSIONS = DOMAIN op.before \cup { op.id }
        /\ \A i \in DOMAIN op.before : SESSIONS[i] = op.before[i]
        /\ op.ret = SESSIONS[op.id]
        /\ op.id \notin DOMAIN op.before =>
            /\ DOMAIN op.ret = { "confirmed_location", "last_weather_data" }
            /\ \A k \in DOMAIN op.ret : op.ret[k] = None

C15_Witness ==
    /\ op.name = "get_session"
    /\ op.id \in DOMAIN op.before
    /\ DOMAIN SESSIONS = SessionIds
    /\ op.ret["confirmed_location"] # None
    /\ "raw_weather_data" \in DOMAIN op.ret

(***************************************************************************)
(* C16.  The update of a session field by after_tool_callback leaves the   *)
(* other fields of the record and the records of the other sessions as     *)
(* they were: a location result sets confirmed_location to its             *)
(* full_address and nothing else, a forecast result sets raw_weather_data  *)
(* and nothing else.  On a new record the forecast fields are still None   *)
(* after the location was confirmed.                                       *)
(***************************************************************************)
OtherFieldsKept(field) ==
    LET old == op.before[op.id]
        new == SESSIONS[op.id]
    IN  /\ DOMAIN new \ { field } = DOMAIN old \ { field }
        /\ \A k \in DOMAIN old \ { field } : new[k] = old[k]

CarriesFullAddress(result) ==
    result.t = "json" /\ result.val.t = "dict" /\ "full_address" \in DOMAIN result.val.d

ConfirmedLocation(sessions, i) == StateGet(sessions[i], "confirmed_location")

C19_ErrorEnvelopeKeepsLocation ==
    /\ (/\ op.name = "after_tool_callback"
        /\ op.tool = LOCATION_TOOL
        /\ op.result.t = "json"
        /\ IsErrorEnvelope(op.result.val)) =>
            /\ SESSIONS = op.before
            /\ op.log = << Ev("info", "Tool Executed") >>
    /\ \A i \in DOMAIN op.before :
            ConfirmedLocation(SESSIONS, i) # ConfirmedLocation(op.before, i) =>
                /\ op.name = "after_tool_callback"
                /\ op.id = i
                /\ op.tool = LOCATION_TOOL
                /\ CarriesFullAddress(op.result)
                /\ ConfirmedLocation(SESSIONS, i) = op.result.val.d["full_address"]

C19_Witness ==
    /\ op.name = "after_tool_callback"
    /\ op.tool = LOCATION_TOOL
    /\ op.result = Json(JDict("error" :> JStr("Location 'Atlantis' not found.")))
    /\ ConfirmedLocation(SESSIONS, op.id) = [t |-> "str", s |-> "Gardner, Kansas"]
    /\ SESSIONS = op.before

(***************************************************************************)
(* C20.  A tool result that is no JSON, or JSON that is no object, makes   *)
(* after_tool_callback log an error and leave the session as it was, and   *)
(* the validation that follows ends without an exception.  Fails: a JSON   *)
(* number, string, list or null from the forecast tool is stored as        *)
(* raw_weather_data with no error logged, and a JSON value of another tool *)
(* is not looked at.                                                       *)
(***************************************************************************)
C20_MalformedResultLoggedAndIgnored ==
    /\ (op.name = "after_tool_callback" /\ Malformed(op.result)) =>
            /\ \E i \in 1..Len(op.log) : op.log[i].level = "error"
            /\ SESSIONS = op.before
    /\ (op.name = "after_model_callback" /\ op.after_malformed) => ~op.raised

(***************************************************************************)
(* C26.  A validation visits START, then PASSTHROUGH when there is no      *)
(* forecast, else the Tier 3 checks, then REWRITTEN on a Tier 3 violation, *)
(* else the Tier 2 and Tier 1 checks and PASSTHROUGH.  The checks run in   *)
(* the order of the code; a rewrite ends the call, so it is followed by no *)
(* other check and no advisory event; an advisory check runs only after    *)
(* both Tier 3 checks passed.  (A check that raises ends the call inside   *)
(* the path it was on.)                                                    *)
(***************************************************************************)
CheckOrder ==
    << "Tornado", "Blizzard", "FloodWatch", "IceStorm", "ExtremeTemperature",
       "DenseFog", "HighWinds", "HighUV", "ModeratePrecipitation" >>

AdvisoryChecked == \E i \in 1..Len(evaluated) : evaluated[i] \notin Tier3Hazards
AdvisoryEvents == { i \in 1..Len(log) : log[i].level = "warning" /\ log[i].what # "Skipped" }

C26_ValidationStateMachine ==
    Validated =>
        /\ log[1] = Ev("info", "Validation Start")
        /\ evaluated = SubSeq(CheckOrder, 1, Len(evaluated))
        /\ ~HasForecast =>
                (Returned /\ evaluated = << >> /\ output = candidate)
        /\ CriticalEvents # { } =>
                /\ Returned
                /\ output = FALLBACK_TEXT
                /\ ~AdvisoryChecked
                /\ AdvisoryEvents = { }
                /\ CriticalEvents = { Len(log) }
                /\ log[Len(log)].what = evaluated[Len(evaluated)]
        /\ AdvisoryChecked =>
                /\ CriticalEvents = { }
                /\ ~Tier3MarkerMissing
                /\ Checked("Tornado") /\ Checked("Blizzard")
        /\ (Returned /\ HasForecast /\ CriticalEvents = { }) =>
                /\ evaluated = CheckOrder
                /\ output = candidate
                /\ log[Len(log)] = Ev("info", "Validation Complete")

C26_Witness ==
    /\ Returned
    /\ output = FALLBACK_TEXT
    /\ candidate = << TORNADO_MARKER >>
    /\ TornadoTriggered
    /\ evaluated = << "Tornado", "Blizzard" >>
    /\ Triggered(check_flood_watch(Stored.d))
    /\ AdvisoryEvents = { }

(***************************************************************************)
(* C27.  A call of after_tool_callback changes at most one field of the    *)
(* session it is given and no other session: raw_weather_data for the      *)
(* forecast tool, confirmed_location for the location tool, nothing for    *)
(* any other tool; after_model_callback changes no session.                *)
(***************************************************************************)
ChangedFields ==
    LET old == op.before[op.id]
        new == SESSIONS[op.id]
    IN  { k \in DOMAIN old \cup DOMAIN new :
            \/ k \notin DOMAIN old
            \/ k \notin DOMAIN new
            \/ old[k] # new[k] }

C27_CallbackFrame ==
    /\ op.name = "after_tool_callback" =>
        /\ DOMAIN SESSIONS = DOMAIN op.before
        /\ \A i \in DOMAIN SESSIONS \ { op.id } : SESSIONS[i] = op.before[i]
        /\ Cardinality(ChangedFields) <= 1
        /\ op.tool = WEATHER_TOOL => ChangedFields \subseteq { "raw_weather_data" }
        /\ op.tool = LOCATION_TOOL => ChangedFields \subseteq { "confirmed_location" }
        /\ op.tool \notin { WEATHER_TOOL, LOCATION_TOOL } => ChangedFields = { }
    /\ op.name = "after_model_callback" => SESSIONS = op.before

\* Another tool returned a well-formed location document to a session that holds a
\* forecast and a location; and a validation ran on a session holding a forecast.
C27_Witness ==
    /\ op.name = "after_tool_callback"
    /\ op.tool = "other_tool"
    /\ CarriesFullAddress(op.result)
    /\ "raw_weather_data" \in DOMAIN SESSIONS[op.id]
    /\ SESSIONS[op.id]["confirmed_location"] # None
    /\ SESSIONS[op.id]["confirmed_location"] # op.result.val.d["full_address"]

(***************************************************************************)
(* tools/health_impact_tools.py: the AQI component and the allergen        *)
(* forecast.  Concentrations are integers in tenths of a unit, so that the *)
(* breakpoints 12.1, 35.4, ... are integers; the inputs are the multiples  *)
(* of one half, on which the floating point expression of line 677 equals  *)
(* the integer quotient below.                                             *)
(***************************************************************************)
MaxHalves == 710   \* the largest concentration, in halves of a unit

\* health_impact_tools.py:246-248, the breakpoint tables, in tenths
PM25_BREAKPOINTS == << <<0, 120>>, <<121, 354>>, <<355, 554>>, <<555, 1504>> >>
PM10_BREAKPOINTS == << <<0, 540>>, <<550, 1540>>, <<1550, 2540>>, <<2550, 3540>> >>
OZONE_BREAKPOINTS == << <<0, 540>>, <<550, 700>>, <<710, 850>>, <<860, 1050>> >>

Breakpoints ==
    [pm25 |-> PM25_BREAKPOINTS, pm10 |-> PM10_BREAKPOINTS, ozone |-> OZONE_BREAKPOINTS]

\* health_impact_tools.py:673-678; enumerate counts from 0, int() truncates a
\* quotient that is never negative inside a band
calculate_aqi_component(concentration, breakpoints) ==
    LET bands == { i \in 1..Len(breakpoints) :
                     /\ breakpoints[i][1] <= concentration
                     /\ concentration <= breakpoints[i][2] }
    IN  IF bands = { } THEN 500
        ELSE LET i == CHOOSE b \in bands : \A o \in bands : b <= o
                 low == breakpoints[i][1]
                 high == breakpoints[i][2]
             IN  ((((i - 1) * 50) + 50) * (concentration - low)) \div (high - low)

\* The concentrations drawn: 0.0, 0.5, 1.0, ... in tenths.
Concentrations == { 5 * h : h \in 0..MaxHalves }

\* A season is the sequence of its characters.
SPRING == << "s", "p", "r", "i", "n", "g" >>
SUMMER == << "s", "u", "m", "m", "e", "r" >>
FALL == << "f", "a", "l", "l" >>
WINTER == << "w", "i", "n", "t", "e", "r" >>

\* health_impact_tools.py:548-573
seasonal_allergens ==
    (SPRING :> [tree_pollen |-> "HIGH", grass_pollen |-> "MODERATE",
                weed_pollen |-> "LOW", mold |-> "MODERATE"])
    @@ (SUMMER :> [tree_pollen |-> "LOW", grass_pollen |-> "HIGH",
                   weed_pollen |-> "MODERATE", mold |-> "MODERATE"])
    @@ (FALL :> [tree_pollen |-> "LOW", grass_pollen |-> "LOW",
                 weed_pollen |-> "HIGH", mold |-> "HIGH"])
    @@ (WINTER :> [tree_pollen |-> "LOW", grass_pollen |-> "LOW",
                   weed_pollen |-> "LOW", mold |-> "LOW"])

\* str.lower() on the characters the inputs use
UpperCase ==
    ("S" :> "s") @@ ("P" :> "p") @@ ("R" :> "r") @@ ("I" :> "i") @@ ("N" :> "n")
    @@ ("G" :> "g") @@ ("U" :> "u") @@ ("M" :> "m") @@ ("E" :> "e") @@ ("F" :> "f")
    @@ ("A" :> "a") @@ ("L" :> "l") @@ ("W" :> "w") @@ ("T" :> "t")

lower(str) ==
    [i \in 1..Len(str) |-> IF str[i] \in DOMAIN UpperCase THEN UpperCase[str[i]]
                           ELSE str[i]]

\* health_impact_tools.py:575, dict.get with the spring levels as default
current_levels(season) ==
    IF lower(season) \in DOMAIN seasonal_allergens
    THEN seasonal_allergens[lower(season)]
    ELSE seasonal_allergens[SPRING]

CountLevel(levels, level) == Cardinality({ a \in DOMAIN levels : levels[a] = level })

\* A faulty variant of overall_index: one HIGH level is enough for HIGH.
overall_index_any_high(levels) ==
    IF CountLevel(levels, "HIGH") >= 1 THEN "HIGH"
    ELSE IF CountLevel(levels, "MODERATE") >= 2 THEN "MODERATE"
    ELSE "LOW"

\* health_impact_tools.py:586-595
overall_index(levels) ==
    LET high_count == CountLevel(levels, "HIGH")
    IN  IF high_count >= 2 THEN "HIGH"
        ELSE IF high_count = 1 \/ CountLevel(levels, "MODERATE") >= 2 THEN "MODERATE"
        ELSE "LOW"

\* health_impact_tools.py:531-668, the fields of the document that depend on the
\* season
get_allergen_forecast(season, recent_precipitation) ==
    LET levels == current_levels(season)
    IN  [season |-> season,
         overall_index |-> overall_index(levels),
         allergen_levels |-> levels,
         status |-> IF recent_precipitation
                    THEN "Temporarily reduced (rain washout)"
                    ELSE "Normal for season"]

\* The season strings drawn: the four names in lower case, upper case and
\* capitalised, a mixed spelling, and strings of no season.
Seasons ==
    { SPRING, SUMMER, FALL, WINTER,
      << "S", "P", "R", "I", "N", "G" >>, << "S", "U", "M", "M", "E", "R" >>,
      << "F", "A", "L", "L" >>, << "W", "I", "N", "T", "E", "R" >>,
      << "S", "p", "r", "i", "n", "g" >>, << "S", "u", "m", "m", "e", "r" >>,
      << "F", "a", "l", "l" >>, << "W", "i", "n", "t", "e", "r" >>,
      << "w", "I", "n", "T", "e", "R" >>, << "f", "A", "l", "L" >>,
      << "a", "u", "t", "u", "m", "n" >>, << "A", "u", "t", "u", "m", "n" >>,
      << "f", "a", "l", "l", " " >>, << "m", "o", "n", "s", "o", "o", "n" >>,
      << >> }

CalculateAqiComponent ==
    /\ \E table \in DOMAIN Breakpoints, c \in Concentrations :
        invoked' = [NoCall EXCEPT
                      !.fn = "calculate_aqi_component",
                      !.input = [table |-> table, concentration |-> c],
                      !.ret = [t |-> "num",
                               n |-> calculate_aqi_component(c, Breakpoints[table])]]
    /\ UNCHANGED <<core_vars, store_vars, race_vars>>

GetAllergenForecast ==
    /\ \E season \in Seasons, rain \in BOOLEAN :
        invoked' = [NoCall EXCEPT
                      !.fn = "get_allergen_forecast",
                      !.input = [season |-> season, recent_precipitation |-> rain],
                      !.ret = [t |-> "json",
                               val |-> get_allergen_forecast(season, rain)]]
    /\ UNCHANGED <<core_vars, store_vars, race_vars>>

HealthNext == CalculateAqiComponent \/ GetAllergenForecast

HealthSpec == Init /\ [][HealthNext]_vars

(***************************************************************************)
(* C29.  Over the range its breakpoints cover, calculate_aqi_component     *)
(* never returns less for a concentration than for the concentration half  *)
(* a unit below it, and it returns 500 only beyond the last breakpoint.    *)
(***************************************************************************)
FirstLow(breakpoints) == breakpoints[1][1]
LastHigh(breakpoints) == breakpoints[Len(breakpoints)][2]

C29_AqiComponentMonotone ==
    invoked.fn = "calculate_aqi_component" =>
        LET breakpoints == Breakpoints[invoked.input.table]
            c == invoked.input.concentration
        IN  /\ (FirstLow(breakpoints) <= c - 5 /\ c <= LastHigh(breakpoints)) =>
                calculate_aqi_component(c - 5, breakpoints) <= invoked.ret.n
            /\ invoked.ret.n = 500 => c > LastHigh(breakpoints)

\* The two halves of C29, to tell which of them the code breaks.
C29_MonotoneInsideTheRange ==
    invoked.fn = "calculate_aqi_component" =>
        LET breakpoints == Breakpoints[invoked.input.table]
            c == invoked.input.concentration
        IN  (FirstLow(breakpoints) <= c - 5 /\ c <= LastHigh(breakpoints)) =>
                calculate_aqi_component(c - 5, breakpoints) <= invoked.ret.n

C29_BeyondScaleOnlyAboveLastBreakpoint ==
    invoked.fn = "calculate_aqi_component" =>
        (invoked.ret.n = 500 =>
            invoked.input.concentration > LastHigh(Breakpoints[invoked.input.table]))

(***************************************************************************)
(* C30.  The overall_index of get_allergen_forecast follows from the four  *)
(* allergen levels of the document: HIGH iff at least two are HIGH, else   *)
(* MODERATE iff exactly one is HIGH or at least two are MODERATE, else     *)
(* LOW.  The levels are those of the season named, whatever the case of    *)
(* its letters, and those of spring for a string that names no season.     *)
(***************************************************************************)
Allergens == { "tree_pollen", "grass_pollen", "weed_pollen", "mold" }

\* The season a string names when read without regard to case.
NamedSeason(str) ==
    { name \in DOMAIN seasonal_allergens :
        /\ Len(name) = Len(str)
        /\ \A i \in 1..Len(name) :
              \/ str[i] = name[i]
              \/ str[i] \in DOMAIN UpperCase /\ UpperCase[str[i]] = name[i] }

C30_AllergenOverallIndex ==
    invoked.fn = "get_allergen_forecast" =>
        LET doc == invoked.ret.val
            levels == doc.allergen_levels
            high == { a \in Allergens : levels[a] = "HIGH" }
            moderate == { a \in Allergens : levels[a] = "MODERATE" }
            named == NamedSeason(invoked.input.season)
        IN  /\ invoked.ret.t = "json"
            /\ DOMAIN levels = Allergens
            /\ doc.overall_index \in { "HIGH", "MODERATE", "LOW" }
            /\ doc.overall_index = "HIGH" <=> Cardinality(high) >= 2
            /\ doc.overall_index = "MODERATE" <=>
                  /\ Cardinality(high) < 2
                  /\ Cardinality(high) = 1 \/ Cardinality(moderate) >= 2
            /\ \A name \in named : levels = seasonal_allergens[name]
            /\ named = { } => levels = seasonal_allergens[SPRING]

\* Summer in mixed case: one HIGH level and two MODERATE ones; an unknown season.
C30_Witness ==
    /\ invoked.fn = "get_allergen_forecast"
    /\ invoked.input.season = << "S", "u", "m", "m", "e", "r" >>
    /\ invoked.ret.val.allergen_levels["grass_pollen"] = "HIGH"
    /\ invoked.ret.val.overall_index = "MODERATE"

C30_WitnessUnknownSeason ==
    /\ invoked.fn = "get_allergen_forecast"
    /\ NamedSeason(invoked.input.season) = { }
    /\ invoked.ret.val.allergen_levels["tree_pollen"] = "HIGH"

(***************************************************************************)
(* tools/weather_data.py: the two tool adapters.  The upstream service of  *)
(* a call either answers or raises a fault; a fault is a class with the    *)
(* text str(e) gives.  An `except C` clause catches the faults whose class *)
(* is C or inherits from C, and the first clause that catches, in the      *)
(* order of the code, handles the fault.                                   *)
(***************************************************************************)
COORDINATES_TOOL == LOCATION_TOOL

\* The classes a fault of geopy belongs to (geopy.exc).
GeopySupers ==
    [GeocoderTimedOut |-> { "GeocoderTimedOut", "GeocoderServiceError", "Exception" },
     GeocoderUnavailable |-> { "GeocoderUnavailable", "GeocoderServiceError", "Exception" },
     GeocoderQuotaExceeded |-> { "GeocoderQuotaExceeded", "GeocoderServiceError", "Exception" },
     GeocoderServiceError |-> { "GeocoderServiceError", "Exception" },
     ValueError |-> { "ValueError", "Exception" }]

\* The classes a fault of requests.get, raise_for_status or response.json
\* belongs to (requests.exceptions).  A body that is no JSON makes
\* response.json raise requests.exceptions.JSONDecodeError, which inherits from
\* RequestException and from json.JSONDecodeError, with requests 2.27 and later,
\* and json.JSONDecodeError with the releases before.
RequestsSupers ==
    [HTTPError |-> { "HTTPError", "RequestException", "Exception" },
     ConnectionError |-> { "ConnectionError", "RequestException", "Exception" },
     ConnectTimeout |-> { "ConnectTimeout", "ConnectionError", "Timeout",
                          "RequestException", "Exception" },
     ReadTimeout |-> { "ReadTimeout", "Timeout", "RequestException", "Exception" },
     TooManyRedirects |-> { "TooManyRedirects", "RequestException", "Exception" },
     InvalidURL |-> { "InvalidURL", "RequestException", "Exception" },
     RequestsJSONDecodeError |-> { "RequestsJSONDecodeError", "InvalidJSONError",
                                   "RequestException", "JSONDecodeError",
                                   "ValueError", "Exception" },
     JSONDecodeError |-> { "JSONDecodeError", "ValueError", "Exception" },
     RuntimeError |-> { "RuntimeError", "Exception" }]

Supers == GeopySupers @@ RequestsSupers

\* An except clause: the class it names and the message it builds, which is
\* prefix + str(e) + suffix when it uses the fault's text.
Handler(class, prefix, uses_text, suffix) ==
    [catches |-> class, prefix |-> prefix, uses_text |-> uses_text, suffix |-> suffix]

\* weather_data.py:40-51
GEOCODER_TIMED_OUT == "Geocoding service timed out. Please try again later."
GEOCODER_UNAVAILABLE == "Geocoding service currently unavailable. Please try again later."

\* A faulty variant of geocoder_handlers: the clause `except Exception` is missing.
geocoder_handlers_without_catch_all ==
    << Handler("GeocoderTimedOut", GEOCODER_TIMED_OUT, FALSE, ""),
       Handler("GeocoderUnavailable", GEOCODER_UNAVAILABLE, FALSE, ""),
       Handler("GeocoderServiceError", "Geocoding service error: ", TRUE,
               ". Please check location or try again.") >>

geocoder_handlers ==
    << Handler("GeocoderTimedOut", GEOCODER_TIMED_OUT, FALSE, ""),
       Handler("GeocoderUnavailable", GEOCODER_UNAVAILABLE, FALSE, ""),
       Handler("GeocoderServiceError", "Geocoding service error: ", TRUE,
               ". Please check location or try again."),
       Handler("Exception", "An unexpected error occurred during geocoding: ",
               TRUE, "") >>

\* weather_data.py:76-96
HTTP_ERROR_PREFIX == "Weather service returned an HTTP error: "
CONNECTION_ERROR ==
    "Could not connect to weather service. Please check network connection."
TIMEOUT_ERROR == "Request to weather service timed out. Please try again later."
REDIRECT_ERROR == "Too many redirects encountered when contacting weather service."
REQUEST_ERROR_PREFIX == "An error occurred during request to weather service: "
DECODE_ERROR ==
    "Failed to decode weather service response. The service might be temporarily unavailable or returned invalid data."

weather_handlers ==
    << Handler("HTTPError", HTTP_ERROR_PREFIX, TRUE, ""),
       Handler("ConnectionError", CONNECTION_ERROR, FALSE, ""),
       Handler("Timeout", TIMEOUT_ERROR, FALSE, ""),
       Handler("TooManyRedirects", REDIRECT_ERROR, FALSE, ""),
       Handler("RequestException", REQUEST_ERROR_PREFIX, TRUE, ""),
       Handler("JSONDecodeError", DECODE_ERROR, FALSE, ""),
       Handler("Exception", "An unexpected error occurred while fetching weather data: ",
               TRUE, "") >>

\* A faulty variant of error_envelope: the envelope also carries a status field.
error_envelope_with_status(message) ==
    JDict(("error" :> JStr(message)) @@ ("status" :> JStr("failed")))

\* json.dumps({"error": message})
error_envelope(message) == JDict("error" :> JStr(message))

Returns(doc) == [raised |-> FALSE, ret |-> Json(doc)]
Propagates == [raised |-> TRUE, ret |-> [t |-> "none"]]

\* The try statement's except clauses on a fault raised inside the try block.
handle(handlers, fault) ==
    LET catching == { i \in 1..Len(handlers) : handlers[i].catches \in Supers[fault.class] }
    IN  IF catching = { } THEN Propagates
        ELSE LET h == handlers[CHOOSE i \in catching : \A j \in catching : i <= j]
             IN  Returns(error_envelope(
                     IF h.uses_text THEN h.prefix \o fault.text \o h.suffix
                     ELSE h.prefix))

\* weather_data.py:17-51
get_coordinates_for_location_string(location_string, upstream) ==
    IF upstream.kind = "fault" THEN handle(geocoder_handlers, upstream)
    ELSE IF upstream.kind = "found"
    THEN Returns(JDict(("latitude" :> [t |-> "num", n |-> upstream.latitude])
                         @@ ("longitude" :> [t |-> "num", n |-> upstream.longitude])
                         @@ ("full_address" :> JStr(upstream.address))))
    ELSE Returns(error_envelope("Location '" \o location_string \o "' not found."))

\* A faulty variant of get_weather_for_location: a document of the service that
\* carries an error flag is replaced by an envelope with its reason.
get_weather_for_location_checks_error_flag(latitude, longitude, upstream) ==
    IF upstream.kind = "fault" THEN handle(weather_handlers, upstream)
    ELSE IF upstream.body.t = "dict" /\ "error" \in DOMAIN upstream.body.d
    THEN Returns(error_envelope("Weather service rejected the request."))
    ELSE Returns(upstream.body)

\* weather_data.py:53-96; json.dumps(response.json()) is the document the
\* service sent
get_weather_for_location(latitude, longitude, upstream) ==
    IF upstream.kind = "fault" THEN handle(weather_handlers, upstream)
    ELSE Returns(upstream.body)

(***************************************************************************)
(* The pipeline of a turn: a tool adapter is called, after_tool_callback   *)
(* gets what it returned, after_model_callback validates the response.     *)
(***************************************************************************)
\* A faulty variant of daily_fields_requested: the fetcher asks for the weather code
\* and the wind speed under the names callbacks.py reads.
daily_fields_requested_as_read ==
    { "weather_code", "temperature_2m_max", "temperature_2m_min", "precipitation_sum",
      "precipitation_probability_max", "wind_speed_10m_max" }

\* weather_data.py:66, the daily fields the fetcher requests
daily_fields_requested ==
    { "weathercode", "temperature_2m_max", "temperature_2m_min", "precipitation_sum",
      "precipitation_probability_max", "windspeed_10m_max" }

\* The field of callbacks.py that holds the values of a requested field.
GuardrailField(k) ==
    CASE k = "weathercode" -> "weather_code"
      [] k = "windspeed_10m_max" -> "wind_speed_10m_max"
      [] OTHER -> k

\* What the service can put in a daily field: a calm and a severe series.
FetchedSeries(k) ==
    IF k = "temperature_2m_min" THEN { << -5, -12 >> }
    ELSE { CalmDaily[GuardrailField(k)], SevereDaily[GuardrailField(k)] }

FetchedForecasts ==
    { JDict("daily" :> d) :
        d \in { f \in [daily_fields_requested ->
                         UNION { FetchedSeries(k) : k \in daily_fields_requested }] :
                  \A k \in daily_fields_requested : f[k] \in FetchedSeries(k) } }
    \cup { JDict("daily" :> [k \in daily_fields_requested |-> << >>]) }

\* tests/test_weather_data.py:180-202, the document the service sends for a
\* latitude out of range
SERVICE_ERROR ==
    JDict(("error" :> [t |-> "bool", b |-> TRUE])
          @@ ("reason" :> JStr("Latitude must be in range [-90; 90]")))

FaultText ==
    [c \in DOMAIN Supers |->
        IF c = "HTTPError" THEN "503 Server Error" ELSE "service failure"]

Faults(classes) == { [kind |-> "fault", class |-> c, text |-> FaultText[c]] : c \in classes }

GeocoderOutcomes ==
    { [kind |-> "found", address |-> a, latitude |-> 38, longitude |-> 0 - 94] :
        a \in Addresses }
    \cup { [kind |-> "none"] }
    \cup Faults(DOMAIN GeopySupers)

WeatherOutcomes ==
    { [kind |-> "ok", body |-> b] :
        b \in FetchedForecasts \cup { SERVICE_ERROR, [t |-> "list", items |-> << >>] } }
    \cup Faults(DOMAIN RequestsSupers)

LocationStrings == { "Atlantis", "Gardner KS" }
Latitudes == { 38, 100 }

GetCoordinates ==
    /\ invoked = NoCall
    /\ outcome = "none"
    /\ \E location_string \in LocationStrings, upstream \in GeocoderOutcomes :
        LET r == get_coordinates_for_location_string(location_string, upstream)
        IN  invoked' = [fn |-> COORDINATES_TOOL, input |-> JStr(location_string),
                        upstream |-> upstream, raised |-> r.raised, ret |-> r.ret]
    /\ UNCHANGED <<core_vars, store_vars, race_vars>>

GetWeather ==
    /\ invoked = NoCall
    /\ outcome = "none"
    /\ \E latitude \in Latitudes, upstream \in WeatherOutcomes :
        LET r == get_weather_for_location(latitude, 0 - 94, upstream)
        IN  invoked' = [fn |-> WEATHER_TOOL, input |-> [t |-> "num", n |-> latitude],
                        upstream |-> upstream, raised |-> r.raised, ret |-> r.ret]
    /\ UNCHANGED <<core_vars, store_vars, race_vars>>

\* callbacks.py:87-106 on what the adapter returned
PipelineToolCallback ==
    /\ invoked # NoCall
    /\ ~invoked.raised
    /\ log = << >>
    /\ LET r == after_tool_callback(state, invoked.fn, invoked.ret)
       IN  /\ state' = r.state
           /\ log' = r.log
    /\ UNCHANGED << candidate, output, outcome, evaluated, prev >>
    /\ UNCHANGED <<store_vars, aux_vars>>

\* callbacks.py:109-158 on the response of the turn
PipelineModelCallback ==
    /\ log # << >>
    /\ outcome = "none"
    /\ \E text \in SessionTexts :
        LET r == after_model_callback(state, text)
        IN  /\ candidate' = text
            /\ output' = r.text
            /\ outcome' = IF r.raised THEN "raised" ELSE "returned"
            /\ log' = r.log
            /\ evaluated' = r.evaluated
    /\ UNCHANGED << state, prev >>
    /\ UNCHANGED <<store_vars, aux_vars>>

PipelineNewTurn ==
    /\ outcome # "none"
    /\ candidate' = << >>
    /\ output' = << >>
    /\ outcome' = "none"
    /\ log' = << >>
    /\ evaluated' = << >>
    /\ invoked' = NoCall
    /\ UNCHANGED << state, prev >>
    /\ UNCHANGED <<store_vars, race_vars>>

PipelineNext ==
    \/ GetCoordinates
    \/ GetWeather
    \/ PipelineToolCallback
    \/ PipelineModelCallback
    \/ PipelineNewTurn

PipelineSpec == Init /\ [][PipelineNext]_vars

(***************************************************************************)
(* Vocabulary of the adapter properties.                                   *)
(***************************************************************************)
AdapterCalled == invoked.fn \in { COORDINATES_TOOL, WEATHER_TOOL }
Decoded == invoked.ret.val
IsObject(v) == v.t = "dict"
ErrorMessage == Decoded.d["error"]

\* An object with the single field `error`, holding a string.
IsErrorStringEnvelope(v) ==
    /\ IsObject(v)
    /\ DOMAIN v.d = { "error" }
    /\ v.d["error"].t = "str"

(***************************************************************************)
(* C21.  Whatever the input and whatever the upstream service does, a tool *)
(* adapter raises nothing and returns JSON text.  The text decodes to the  *)
(* location fields of the place found, to the document the weather service *)
(* sent, or to an object with an `error` key; a location that is not found *)
(* gives the error "Location '<input>' not found.".                        *)
(***************************************************************************)
C21_AdaptersTotal ==
    AdapterCalled =>
        /\ ~invoked.raised
        /\ invoked.ret.t = "json"
        /\ (invoked.fn = COORDINATES_TOOL /\ invoked.upstream.kind = "found") =>
              /\ IsObject(Decoded)
              /\ DOMAIN Decoded.d = { "latitude", "longitude", "full_address" }
              /\ Decoded.d["full_address"] = JStr(invoked.upstream.address)
              /\ Decoded.d["latitude"].n = invoked.upstream.latitude
              /\ Decoded.d["longitude"].n = invoked.upstream.longitude
        /\ (invoked.fn = COORDINATES_TOOL /\ invoked.upstream.kind = "none") =>
              Decoded = JDict("error" :> JStr("Location '" \o invoked.input.s
                                                \o "' not found."))
        /\ (invoked.fn = WEATHER_TOOL /\ invoked.upstream.kind = "ok") =>
              Decoded = invoked.upstream.body
        /\ invoked.upstream.kind = "fault" =>
              (IsObject(Decoded) /\ "error" \in DOMAIN Decoded.d)

\* A fault that only the last clause of the geocoder catches; a place not found.
C21_Witness ==
    /\ invoked.fn = COORDINATES_TOOL
    /\ invoked.upstream.kind = "fault"
    /\ invoked.upstream.class = "ValueError"
    /\ Decoded = JDict("error" :> JStr("An unexpected error occurred during geocoding: service failure"))

C21_WitnessNotFound ==
    /\ invoked.fn = COORDINATES_TOOL
    /\ invoked.upstream.kind = "none"
    /\ Decoded = JDict("error" :> JStr("Location 'Atlantis' not found."))

(***************************************************************************)
(* C22.  Every fault class gets the message of its own except clause: the  *)
(* HTTP, connection, timeout, redirect and decode failures of the fetcher  *)
(* and the timeout and unavailability of the geocoder never get the        *)
(* message of a more general clause.  Fails for a body that is no JSON     *)
(* when response.json raises requests.exceptions.JSONDecodeError: that     *)
(* class is a RequestException, whose clause comes first.                  *)
(***************************************************************************)
FaultOf(fn, classes) ==
    /\ invoked.fn = fn
    /\ invoked.upstream.kind = "fault"
    /\ invoked.upstream.class \in classes

C22_EachFaultOwnMessage ==
    /\ FaultOf(WEATHER_TOOL, { "HTTPError" }) =>
          ErrorMessage = JStr(HTTP_ERROR_PREFIX \o invoked.upstream.text)
    /\ FaultOf(WEATHER_TOOL, { "ConnectionError" }) => ErrorMessage = JStr(CONNECTION_ERROR)
    /\ FaultOf(WEATHER_TOOL, { "ReadTimeout" }) => ErrorMessage = JStr(TIMEOUT_ERROR)
    /\ FaultOf(WEATHER_TOOL, { "ConnectTimeout" }) =>
          ErrorMessage \in { JStr(CONNECTION_ERROR), JStr(TIMEOUT_ERROR) }
    /\ FaultOf(WEATHER_TOOL, { "TooManyRedirects" }) => ErrorMessage = JStr(REDIRECT_ERROR)
    /\ FaultOf(WEATHER_TOOL, { "InvalidURL" }) =>
          ErrorMessage = JStr(REQUEST_ERROR_PREFIX \o invoked.upstream.text)
    /\ FaultOf(WEATHER_TOOL, { "RequestsJSONDecodeError", "JSONDecodeError" }) =>
          ErrorMessage = JStr(DECODE_ERROR)
    /\ FaultOf(COORDINATES_TOOL, { "GeocoderTimedOut" }) =>
          ErrorMessage = JStr(GEOCODER_TIMED_OUT)
    /\ FaultOf(COORDINATES_TOOL, { "GeocoderUnavailable" }) =>
          ErrorMessage = JStr(GEOCODER_UNAVAILABLE)
    /\ FaultOf(COORDINATES_TOOL, { "GeocoderQuotaExceeded", "GeocoderServiceError" }) =>
          ErrorMessage = JStr("Geocoding service error: " \o invoked.upstream.text
                              \o ". Please check location or try again.")

\* C22 without the decode failure: what holds of the code.
C22_OwnMessageExceptDecodeFailure ==
    FaultOf(WEATHER_TOOL, { "RequestsJSONDecodeError" }) \/ C22_EachFaultOwnMessage

\* The decode failure of the releases of requests before 2.27 gets its message.
C22_StdlibDecodeFailureOwnMessage ==
    FaultOf(WEATHER_TOOL, { "JSONDecodeError" }) => ErrorMessage = JStr(DECODE_ERROR)

(***************************************************************************)
(* C23.  A document in which the weather service reports an error of its   *)
(* own, sent with a successful status, is returned by                      *)
(* get_weather_for_location as it is; after_tool_callback and              *)
(* after_model_callback then complete, and the response is released as the *)
(* model wrote it.                                                         *)
(***************************************************************************)
ServiceErrorFetched ==
    /\ invoked.fn = WEATHER_TOOL
    /\ invoked.upstream.kind = "ok"
    /\ invoked.upstream.body = SERVICE_ERROR

C23_ServiceErrorPassedThrough ==
    ServiceErrorFetched =>
        /\ ~invoked.raised
        /\ invoked.ret = Json(SERVICE_ERROR)
        /\ DOMAIN Decoded.d = { "error", "reason" }
        /\ Decoded.d["error"] = [t |-> "bool", b |-> TRUE]
        /\ Decoded.d["reason"] = JStr("Latitude must be in range [-90; 90]")
        /\ log # << >> =>
              /\ StateGet(state, "raw_weather_data") = SERVICE_ERROR
              /\ \A i \in 1..Len(log) : log[i].level \notin { "error", "critical" }
        /\ Validated => (Returned /\ output = candidate)

C23_Witness ==
    /\ ServiceErrorFetched
    /\ Returned
    /\ candidate = FULL_REPORT
    /\ output = FULL_REPORT
    /\ evaluated = CheckOrder

(***************************************************************************)
(* C24.  As stated: every result of a tool adapter is either the expected  *)
(* data fields or an object whose only field is `error`, holding a string. *)
(* Fails for the document the weather service sends for a request it       *)
(* rejects: get_weather_for_location returns it as it is, with `error`     *)
(* set to true beside `reason`.                                            *)
(***************************************************************************)
IsLocationFields(v) ==
    /\ IsObject(v)
    /\ DOMAIN v.d = { "latitude", "longitude", "full_address" }

IsDataFields(v) ==
    IF invoked.fn = COORDINATES_TOOL THEN IsLocationFields(v)
    ELSE IsObject(v) /\ "error" \notin DOMAIN v.d

C24_EveryResultOneOfTwoShapes ==
    AdapterCalled => (IsDataFields(Decoded) \/ IsErrorStringEnvelope(Decoded))

(***************************************************************************)
(* C24, amended.  Every result an adapter builds itself is of one of the   *)
(* two shapes: the location fields for a place found, and an object whose  *)
(* only field is `error`, holding a string, for a place not found and for  *)
(* every fault.  A document the weather service sends with a successful    *)
(* status is returned as it is, whatever its shape.                        *)
(***************************************************************************)
PassedThrough == invoked.fn = WEATHER_TOOL /\ invoked.upstream.kind = "ok"

C24_BuiltResultsOneOfTwoShapes ==
    AdapterCalled =>
        /\ PassedThrough => Decoded = invoked.upstream.body
        /\ ~PassedThrough =>
              IF invoked.upstream.kind = "found"
              THEN IsLocationFields(Decoded)
              ELSE IsErrorStringEnvelope(Decoded)

C24_Witness ==
    /\ invoked.fn = WEATHER_TOOL
    /\ invoked.upstream.kind = "fault"
    /\ invoked.upstream.class = "HTTPError"
    /\ Decoded = JDict("error" :> JStr("Weather service returned an HTTP error: 503 Server Error"))

(***************************************************************************)
(* C28.  On a forecast as get_weather_for_location fetches it, stored by   *)
(* after_tool_callback, a validation finds no Tornado and no Blizzard and  *)
(* never rewrites the response: the fetcher asks for weathercode and       *)
(* windspeed_10m_max and for no gusts, apparent temperatures or UV index,  *)
(* while the checks read weather_code, wind_speed_10m_max,                 *)
(* wind_gusts_10m_max, apparent_temperature_* and uv_index_max.  Only the  *)
(* FloodWatch and ModeratePrecipitation checks can find their hazard.      *)
(***************************************************************************)
FetchedForecastStored == HasForecast /\ Stored \in FetchedForecasts
FetchableHazards == { "FloodWatch", "ModeratePrecipitation" }

C28_FetchedForecastNeverTier3 ==
    (Validated /\ FetchedForecastStored) =>
        /\ ~TornadoTriggered
        /\ ~BlizzardTriggered
        /\ CriticalEvents = { }
        /\ output # FALLBACK_TEXT
        /\ Returned => output = candidate
        /\ \A h \in LoggedHazards \ FetchableHazards :
              /\ ~Triggered(HazardCheck(h, Stored.d))
              /\ ~HazardEvent(h)

\* A forecast of thunderstorm, heavy snow, frost and gale, with heavy rain: only the
\* two precipitation advisories are logged, and the empty response is released.
C28_Witness ==
    /\ Returned
    /\ invoked.fn = WEATHER_TOOL
    /\ HasForecast
    /\ DOMAIN Stored.d["daily"] = daily_fields_requested
    /\ Stored.d["daily"]["weathercode"] = << 95, 75, 66, 45 >>
    /\ Stored.d["daily"]["windspeed_10m_max"] = << 57, 12 >>
    /\ Stored.d["daily"]["temperature_2m_max"] = << -3, -1 >>
    /\ candidate = << >>
    /\ output = << >>
    /\ Logged("warning", "FloodWatch")
    /\ Logged("warning", "ModeratePrecipitation")

(***************************************************************************)
(* Two turns on one session id, statement by statement: get_session        *)
(* (agent.py:25, 26-29, 30) and then after_tool_callback on the record     *)
(* (callbacks.py:93, 95-104, 106).  A dict is shared by reference: the     *)
(* dict a caller got from get_session stays the cache's dict until another *)
(* caller's line 26 puts a new dict in its place.  Whether get_state hands *)
(* out the session's dict or a copy of it is the framework's choice; both  *)
(* are drawn.                                                              *)
(***************************************************************************)
RaceSessionId == "s1"

RaceCalls ==
    { << WEATHER_TOOL, Json(JDict("daily" :> CalmDaily)) >>,
      << WEATHER_TOOL, Json(JDict("daily" :> SevereDaily)) >> }
    \cup { << LOCATION_TOOL, Json(v) >> : v \in LocationDocs }

Busy(p) == pc[p] \notin { "idle", "done" }

\* The contents of the dict caller p holds as its session.
SessionDict(p) == IF local[p].live THEN SESSIONS[local[p].session_id] ELSE local[p].session

\* An assignment of contents to the dict caller p holds, with p moving to `next`.
WriteSessionDict(p, contents, next) ==
    /\ pc' = [pc EXCEPT ![p] = next]
    /\ IF local[p].live
       THEN /\ SESSIONS' = [SESSIONS EXCEPT ![local[p].session_id] = contents]
            /\ UNCHANGED local
       ELSE /\ local' = [local EXCEPT ![p].session = contents]
            /\ UNCHANGED SESSIONS

RaceFrame == UNCHANGED <<core_vars, op, tool_vars>>

StartTurn(p) ==
    /\ pc[p] = "idle"
    /\ \E call \in RaceCalls :
        local' = [local EXCEPT ![p] =
                    [NoLocal EXCEPT !.session_id = RaceSessionId,
                                    !.tool = call[1],
                                    !.result = call[2],
                                    !.overlapped = \E q \in Callers \ { p } : Busy(q)]]
    /\ pc' = [pc EXCEPT ![p] = "lookup"]
    /\ UNCHANGED SESSIONS
    /\ RaceFrame

\* A faulty variant of SessionLookup: the test waits while another caller is between
\* its own test and the end of its turn, as under a lock held per session id.
SessionLookupLocked(p) ==
    /\ pc[p] = "lookup"
    /\ \A q \in Callers \ { p } : pc[q] \in { "idle", "lookup", "done" }
    /\ pc' = [pc EXCEPT ![p] = IF local[p].session_id \notin DOMAIN SESSIONS
                               THEN "insert" ELSE "return"]
    /\ UNCHANGED <<SESSIONS, local>>
    /\ RaceFrame

\* agent.py:25, if session_id not in SESSIONS
SessionLookup(p) ==
    /\ pc[p] = "lookup"
    /\ pc' = [pc EXCEPT ![p] = IF local[p].session_id \notin DOMAIN SESSIONS
                               THEN "insert" ELSE "return"]
    /\ UNCHANGED <<SESSIONS, local>>
    /\ RaceFrame

\* agent.py:26-29, SESSIONS[session_id] = {...}: a new dict takes the place of the
\* one in the cache, which the callers that hold it keep
SessionInsert(p) ==
    /\ pc[p] = "insert"
    /\ SESSIONS' = [i \in DOMAIN SESSIONS \cup { local[p].session_id } |->
                      IF i = local[p].session_id THEN NEW_SESSION ELSE SESSIONS[i]]
    /\ local' = [q \in Callers |->
                    IF q # p /\ local[q].live
                    THEN [local[q] EXCEPT !.live = FALSE,
                                          !.session = SESSIONS[local[q].session_id]]
                    ELSE local[q]]
    /\ pc' = [pc EXCEPT ![p] = "return"]
    /\ RaceFrame

\* agent.py:30, return SESSIONS[session_id]
SessionReturn(p) ==
    /\ pc[p] = "return"
    /\ local' = [local EXCEPT ![p].live = TRUE]
    /\ pc' = [pc EXCEPT ![p] = "get_state"]
    /\ UNCHANGED SESSIONS
    /\ RaceFrame

\* callbacks.py:93, state = session.get_state()
ToolGetState(p) ==
    /\ pc[p] = "get_state"
    /\ \E alias \in BOOLEAN :
        local' = [local EXCEPT ![p].alias = alias,
                               ![p].state = IF alias THEN EmptyDict ELSE SessionDict(p)]
    /\ pc' = [pc EXCEPT ![p] = "modify"]
    /\ UNCHANGED SESSIONS
    /\ RaceFrame

\* callbacks.py:95-104, the try statement: state[...] = ...
ToolModify(p) ==
    /\ pc[p] = "modify"
    /\ IF local[p].alias
       THEN WriteSessionDict(p, after_tool_callback(SessionDict(p), local[p].tool,
                                                    local[p].result).state,
                             "set_state")
       ELSE /\ local' = [local EXCEPT ![p].state =
                            after_tool_callback(local[p].state, local[p].tool,
                                                local[p].result).state]
            /\ pc' = [pc EXCEPT ![p] = "set_state"]
            /\ UNCHANGED SESSIONS
    /\ RaceFrame

\* callbacks.py:106, session.set_state(state)
ToolSetState(p) ==
    /\ pc[p] = "set_state"
    /\ IF local[p].alias
       THEN /\ pc' = [pc EXCEPT ![p] = "done"]
            /\ UNCHANGED <<SESSIONS, local>>
       ELSE WriteSessionDict(p, local[p].state, "done")
    /\ RaceFrame

RaceStep(p) ==
    \/ StartTurn(p)
    \/ SessionLookup(p)
    \/ SessionInsert(p)
    \/ SessionReturn(p)
    \/ ToolGetState(p)
    \/ ToolModify(p)
    \/ ToolSetState(p)

RaceNext == \E p \in Callers : RaceStep(p)

RaceSpec == Init /\ [][RaceNext]_vars

(***************************************************************************)
(* C25.  The session cache serialises nothing: a caller that has not       *)
(* finished its turn can always run its next statement, wherever the other *)
(* caller is.  So the statements of two turns on one session id            *)
(* interleave, and an update gets lost: a field one caller stored is not   *)
(* in the session's record once both are done, although the other caller   *)
(* stored another field.  Turns that do not overlap lose nothing.          *)
(***************************************************************************)
Finished == \A p \in Callers : pc[p] = "done"

\* The field caller p's tool result is stored in, with its value.
UpdateOf(p) ==
    IF local[p].tool = WEATHER_TOOL
    THEN [field |-> "raw_weather_data", value |-> local[p].result.val]
    ELSE [field |-> "confirmed_location", value |-> local[p].result.val.d["full_address"]]

InCache(u) ==
    /\ RaceSessionId \in DOMAIN SESSIONS
    /\ u.field \in DOMAIN SESSIONS[RaceSessionId]
    /\ SESSIONS[RaceSessionId][u.field] = u.value

LostUpdate(p) ==
    /\ Finished
    /\ \A q \in Callers \ { p } : UpdateOf(q).field # UpdateOf(p).field
    /\ ~InCache(UpdateOf(p))

Overlapped == \E p \in Callers : local[p].overlapped

C25_NoSerialization ==
    /\ \A p \in Callers : pc[p] # "done" => ENABLED RaceStep(p)
    /\ \A p \in Callers : (LostUpdate(p) => Overlapped)

\* Lost through get_session: a caller stored its field in a dict that line 26 of the
\* other caller had replaced in the cache.
C25_Witness ==
    \E p \in Callers :
        /\ LostUpdate(p)
        /\ ~local[p].live
        /\ UpdateOf(p).field \in DOMAIN local[p].session
        /\ local[p].session[UpdateOf(p).field] = UpdateOf(p).value

\* Lost through get_state / set_state: both callers hold the cache's dict, and the
\* set_state of one wrote back a copy taken before the other stored its field.
C25_WitnessSetState ==
    \E p \in Callers :
        /\ LostUpdate(p)
        /\ \A q \in Callers : local[q].live
        /\ \E q \in Callers \ { p } : ~local[q].alias /\ InCache(UpdateOf(q))

====
